---- MODULE Spec2Model ----
(***************************************************************************)
(* Trip reconstruction of one route inside LoadCity (metroman client) and  *)
(* the value codec of the geometry decoder.                                *)
(*                                                                         *)
(* Go maps are modelled as sets of <<key, value>> pairs holding at most    *)
(* one pair per key; ranging over a Go map visits its entries in an        *)
(* unspecified order, which is a nondeterministic choice here.             *)
(* Slice indices are 0-based as in the source; sequences are 1-based, so   *)
(* slice element i is sequence element i + 1.                              *)
(***************************************************************************)
EXTENDS Integers, Sequences, FiniteSets, TLC

\* ---------------------------------------------------------------- bounds
MaxStations == 3
MaxSchedules == 2
MaxRecords == 3
MaxMinute == 1

Minutes == 0..MaxMinute
\* one timing record: <<depart_min, arrive_next_min>>
TimingRecords == Minutes \X Minutes

\* ------------------------------------------------------------- Go maps
MapHas(m, k) == \E p \in m : p[1] = k
MapGet(m, k) == (CHOOSE p \in m : p[1] = k)[2]
MapPut(m, k, v) == {p \in m : p[1] # k} \cup {<<k, v>>}
MapValues(m) == {p[2] : p \in m}

\* ------------------------------------------------------------ variables
VARIABLES
    pc,                     \* position inside LoadCity for this route
    Stations,               \* route.Stations, as the stations' Index fields
    Schedules,              \* route.Schedules
    schedule_csv_lines,     \* records of the route's timing table, file order
    csv_idx,                \* schedule_record_line_idx / csv_idx
    station_arrivals_departures,           \* [schedule][hop] -> map arrive -> depart
    schedule_station_arrivals_departures,  \* structure being filled by Step A
    station_idx,
    last_depart_min,
    record_cell,            \* per record read: <<structure number, cell number>> it was written to
    sched_i,                \* index of the structure Step B is walking
    station_i,
    trips,
    trip_ended,
    arrival_trip_assigned,
    last_arrival_trip_assigned,
    pending,                \* entries of this_arrivals_departures not yet iterated
    trips_by_schedule,
    Trips,                  \* route.Trips
    char,                   \* input byte of ParseChar
    value,                  \* results returned by ParseChar so far
    elem,                   \* argument of DecodeGeoDiff, as byte values
    decoded,                \* GeoDiff values returned by DecodeGeoDiff so far
    encoded,                \* argument of DecodeCombinedGeoDiff, as byte values
    elems,                  \* strings.Split(encoded, "|")
    elem_idx,               \* number of elems the range loop has passed
    result,                 \* result of DecodeCombinedGeoDiff
    coord,                  \* Coordinate passed to and returned by the GCJ-02 step
    coord_in,               \* the Coordinate before the first application
    applied,                \* number of applications so far
    last_call,              \* the conversion applied last
    uno_csv_lines,          \* records of uno.csv, file order: [Code, Tag]
    uno_idx,                \* number of uno.csv records read
    station_index,
    uno_stations,           \* stations of LoadCity, each [Code, Index]
    uno_lines,              \* lines of LoadCity, by Code
    uno_routes,             \* routes of LoadCity, by Code
    stations_by_code,
    load_no,                \* number of loads of the bundle finished
    first_stations,         \* Stations of the city the first load returned
    ZipDateLookup,          \* s.ZipDateLookup: city code -> zip date
    CityZips,               \* s.CityZips: city code -> raw archive
    Cities,                 \* s.Cities: city code -> loaded city
    code,                   \* argument of the running or last s.LoadCity call
    zip,                    \* archive downloaded by that call, NoZip before the download
    err,                    \* error that call returned, <<>> for nil
    zips_before,            \* s.CityZips when that call began
    cities_before,          \* s.Cities when that call began
    calls,                  \* number of s.LoadCity calls begun
    city_routes,            \* routes of LoadCity: [Stations, Schedules, has_timing, timing]
    route_idx,              \* number of routes the route loop has passed
    route_trips,            \* Trips of every route, <<>> for nil
    visited,                \* routes (0-based) whose Trips were assigned
    schedule_record_line,   \* one line of a timing table, as byte values
    schedule_record,        \* strings.Split(schedule_record_line, ",")
    depart_parsed,          \* depart_min as parsed, 0 before the parse
    arrive_parsed,          \* arrive_next_min as parsed, 0 before the parse
    fare_csv_lines,         \* records of fare.csv, file order, each split on ","
    fare_idx,               \* number of fare.csv records read
    fare_matrices,          \* fare_matrices of LoadCity / city.FareMatrices
    fare_matrix_stations,   \* fare_matrix_stations of LoadCity / city.FareMatrixStations
    fare_attrs,             \* rows of fare_attributes.txt: <<start Index, end Index, price>>
    conc_ZipDateLookup,     \* s.ZipDateLookup of the server both requests use
    conc_CityZips,          \* s.CityZips of that server
    conc_Cities,            \* s.Cities of that server
    g_pc,                   \* position of each request goroutine inside s.LoadCity
    g_code,                 \* code of each request
    g_zip,                  \* zip of each call, NoZip before the download
    g_err,                  \* error each call returned, <<>> for nil
    writing,                \* <<goroutine, map>> pairs: map assignments begun and not finished
    overlapped,             \* maps with an assignment in progress that overlapped another
    accesses,               \* <<goroutine, field of s, "read" or "write">> done so far
    city,                   \* s.Cities[code]: [StationsByCode, Routes, Holidays, ScheduleDef]
    city_loaded,            \* the city as LoadCity returned it
    stops_txt,              \* result of each GenerateStopsTXT call, as rows
    routes_txt,             \* result of each GenerateRoutesTXT call, as rows
    calendar_txt,           \* first result of each GenerateCalendarTXT call, as rows
    calendar_dates_txt,     \* second result of each GenerateCalendarTXT call, as rows
    way_record,             \* station fields of one way.csv record (way_record[3:]), parsed
    way_stations,           \* route.Stations of the record's route, as Index fields
    station_to_schedule_idx,\* route.StationToScheduleIndex
    way_station_i,          \* station_i of the walk over the route's hops
    cells_read,             \* index of the hop cell looked up at each route position so far
    stations_raw,           \* lat_raw, lng_raw of the MS records of uno.csv, file order
    path_raw,               \* lat_raw, lng_raw of the records of path_latlng.csv, file order
    path_rail_record,       \* the record of path_rail.csv: [from, to, lower, upper]
    coord_stations,         \* stations of LoadCity: [Code, Coord]
    all_latlng_coords,      \* all_latlng_coords of LoadCity
    StationPaths,           \* line.StationPaths: path code -> coordinates
    stops_coords,           \* <<stop_id, coordinate>> of each row GenerateStopsTXT wrote
    shape_coords,           \* coordinate of each row GenerateShapesTXT wrote
    walk_blocks,            \* the blocks geo_data was written from, in order
    walk_geo_data,          \* geo_data of DecodeGeoDiff, as byte values
    walk_index,             \* index of the block loop
    walk_point,             \* current_point of the block loop
    walk_points,            \* points of the block loop
    walk_done,              \* number of blocks the loop has consumed
    walk_result,            \* the GeoDiff returned, <<>> before the return
    trips_txt,              \* rows GenerateTripsTXT wrote: <<service_id, trip_id>>
    stop_times_txt,         \* rows GenerateStopTimesTXT wrote: <<trip_id, time, stop_id, stop_sequence>>
    generated               \* the outputs generated so far

routeVars == <<Stations, Schedules, schedule_csv_lines>>
stepAVars == <<csv_idx, station_arrivals_departures,
               schedule_station_arrivals_departures, station_idx,
               last_depart_min, record_cell>>
stepBVars == <<sched_i, station_i, trips, trip_ended, arrival_trip_assigned,
               last_arrival_trip_assigned, pending, trips_by_schedule, Trips>>
codecVars == <<char, value>>
geoVars == <<elem, decoded, encoded, elems, elem_idx, result>>
transformVars == <<coord, coord_in, applied, last_call>>
unoVars == <<uno_csv_lines, uno_idx, station_index, uno_stations, uno_lines,
             uno_routes, stations_by_code, load_no, first_stations>>
serverVars == <<ZipDateLookup, CityZips, Cities, code, zip, err, zips_before,
                cities_before, calls>>
routesVars == <<city_routes, route_idx, route_trips, visited>>
parseVars == <<schedule_record_line, schedule_record, depart_parsed,
               arrive_parsed>>
fareVars == <<fare_csv_lines, fare_idx, fare_matrices, fare_matrix_stations,
              fare_attrs>>
concVars == <<conc_ZipDateLookup, conc_CityZips, conc_Cities, g_pc, g_code,
              g_zip, g_err, writing, overlapped, accesses>>
genVars == <<city, city_loaded, stops_txt, routes_txt, calendar_txt,
             calendar_dates_txt>>
wayVars == <<way_record, way_stations, station_to_schedule_idx,
             way_station_i, cells_read>>
coordVars == <<stations_raw, path_raw, path_rail_record, coord_stations,
               all_latlng_coords, StationPaths, stops_coords, shape_coords>>
walkVars == <<walk_blocks, walk_geo_data, walk_index, walk_point,
              walk_points, walk_done, walk_result>>
tripIdsVars == <<trips_txt, stop_times_txt, generated>>
otherVars == <<geoVars, transformVars, unoVars, serverVars, routesVars, parseVars, fareVars, concVars, genVars, wayVars, coordVars, walkVars, tripIdsVars>>
vars == <<pc, routeVars, stepAVars, stepBVars, codecVars, otherVars>>

\* the route and value-codec variables while neither is modelled
RouteUnused ==
    /\ Stations = <<0, 1>>
    /\ Schedules = <<1>>
    /\ schedule_csv_lines = <<>>
    /\ csv_idx = 0
    /\ station_arrivals_departures = <<>>
    /\ schedule_station_arrivals_departures = <<>>
    /\ station_idx = 0
    /\ last_depart_min = 0
    /\ record_cell = <<>>
    /\ sched_i = 0
    /\ station_i = 0
    /\ trips = <<>>
    /\ trip_ended = <<>>
    /\ arrival_trip_assigned = {}
    /\ last_arrival_trip_assigned = {}
    /\ pending = {}
    /\ trips_by_schedule = <<>>
    /\ Trips = <<>>
CodecUnused == char = 0 /\ value = {}

\* the variables of the geometry decoder while no call of it is modelled
GeoUnused ==
    /\ elem = <<>>
    /\ decoded = {}
    /\ encoded = <<>>
    /\ elems = <<>>
    /\ elem_idx = 0
    /\ result = <<>>

\* the variables of the coordinate transform while it is not modelled
TransformUnused ==
    /\ coord = [Lat |-> <<0, 0>>, Lng |-> <<0, 0>>]
    /\ coord_in = [Lat |-> <<0, 0>>, Lng |-> <<0, 0>>]
    /\ applied = 0
    /\ last_call = "none"

\* the variables of the primary-table loop of LoadCity while it is not modelled
UnoUnused ==
    /\ uno_csv_lines = <<>>
    /\ uno_idx = 0
    /\ station_index = 0
    /\ uno_stations = <<>>
    /\ uno_lines = <<>>
    /\ uno_routes = <<>>
    /\ stations_by_code = {}
    /\ load_no = 0
    /\ first_stations = <<>>

\* the variables of the server and the table reads of LoadCity while it is not modelled
ServerUnused ==
    /\ ZipDateLookup = {}
    /\ CityZips = {}
    /\ Cities = {}
    /\ code = ""
    /\ zip = [files |-> {}, names_matrix |-> FALSE]
    /\ err = <<>>
    /\ zips_before = {}
    /\ cities_before = {}
    /\ calls = 0

\* the variables of the route loop of LoadCity while it is not modelled
RoutesUnused ==
    /\ city_routes = <<>>
    /\ route_idx = 0
    /\ route_trips = <<>>
    /\ visited = {}

\* the variables of the parse of a timing record while it is not modelled
ParseUnused ==
    /\ schedule_record_line = <<>>
    /\ schedule_record = <<>>
    /\ depart_parsed = 0
    /\ arrive_parsed = 0

\* the variables of the fare tables while it is not modelled
FareUnused ==
    /\ fare_csv_lines = <<>>
    /\ fare_idx = 0
    /\ fare_matrices = <<>>
    /\ fare_matrix_stations = <<>>
    /\ fare_attrs = <<>>

\* the variables of the concurrent loads while it is not modelled
ConcUnused ==
    /\ conc_ZipDateLookup = {}
    /\ conc_CityZips = {}
    /\ conc_Cities = {}
    /\ g_pc = <<>>
    /\ g_code = <<>>
    /\ g_zip = <<>>
    /\ g_err = <<>>
    /\ writing = {}
    /\ overlapped = {}
    /\ accesses = {}

\* the variables of the generation operations while it is not modelled
GenUnused ==
    /\ city = <<>>
    /\ city_loaded = <<>>
    /\ stops_txt = <<>>
    /\ routes_txt = <<>>
    /\ calendar_txt = <<>>
    /\ calendar_dates_txt = <<>>

\* the variables of the schedule-position lookup while it is not modelled
WayUnused ==
    /\ way_record = <<>>
    /\ way_stations = <<>>
    /\ station_to_schedule_idx = {}
    /\ way_station_i = 0
    /\ cells_read = <<>>

\* the variables of the coordinates of stations and shapes while it is not modelled
CoordUnused ==
    /\ stations_raw = <<>>
    /\ path_raw = <<>>
    /\ path_rail_record = <<>>
    /\ coord_stations = <<>>
    /\ all_latlng_coords = <<>>
    /\ StationPaths = {}
    /\ stops_coords = <<>>
    /\ shape_coords = <<>>

\* the variables of the block loop of DecodeGeoDiff while it is not modelled
WalkUnused ==
    /\ walk_blocks = <<>>
    /\ walk_geo_data = <<>>
    /\ walk_index = 0
    /\ walk_point = <<>>
    /\ walk_points = <<>>
    /\ walk_done = 0
    /\ walk_result = <<>>

\* the variables of the trip and stop-time outputs while it is not modelled
TripIdsUnused ==
    /\ trips_txt = <<>>
    /\ stop_times_txt = <<>>
    /\ generated = {}

\* the variables outside the route and the value codec, while unused
OtherUnused ==
    /\ GeoUnused
    /\ TransformUnused
    /\ UnoUnused
    /\ ServerUnused
    /\ RoutesUnused
    /\ ParseUnused
    /\ FareUnused
    /\ ConcUnused
    /\ GenUnused
    /\ WayUnused
    /\ CoordUnused
    /\ WalkUnused
    /\ TripIdsUnused
\* everything but the geometry decoder
nonGeoVars == <<routeVars, stepAVars, stepBVars, codecVars, transformVars,
                unoVars, serverVars, routesVars, parseVars, fareVars,
                concVars, genVars, wayVars, coordVars, walkVars, tripIdsVars>>
NonGeoUnused ==
    /\ RouteUnused
    /\ CodecUnused
    /\ TransformUnused
    /\ UnoUnused
    /\ ServerUnused
    /\ RoutesUnused
    /\ ParseUnused
    /\ FareUnused
    /\ ConcUnused
    /\ GenUnused
    /\ WayUnused
    /\ CoordUnused
    /\ WalkUnused
    /\ TripIdsUnused
\* everything but the coordinate transform
nonTransformVars == <<routeVars, stepAVars, stepBVars, codecVars, geoVars,
                      unoVars, serverVars, routesVars, parseVars, fareVars,
                      concVars, genVars, wayVars, coordVars, walkVars,
                      tripIdsVars>>
NonTransformUnused ==
    /\ RouteUnused
    /\ CodecUnused
    /\ GeoUnused
    /\ UnoUnused
    /\ ServerUnused
    /\ RoutesUnused
    /\ ParseUnused
    /\ FareUnused
    /\ ConcUnused
    /\ GenUnused
    /\ WayUnused
    /\ CoordUnused
    /\ WalkUnused
    /\ TripIdsUnused
\* everything but the primary-table loop of LoadCity
nonUnoVars == <<routeVars, stepAVars, stepBVars, codecVars, geoVars,
                transformVars, serverVars, routesVars, parseVars, fareVars,
                concVars, genVars, wayVars, coordVars, walkVars, tripIdsVars>>
NonUnoUnused ==
    /\ RouteUnused
    /\ CodecUnused
    /\ GeoUnused
    /\ TransformUnused
    /\ ServerUnused
    /\ RoutesUnused
    /\ ParseUnused
    /\ FareUnused
    /\ ConcUnused
    /\ GenUnused
    /\ WayUnused
    /\ CoordUnused
    /\ WalkUnused
    /\ TripIdsUnused
\* everything but the server and the table reads of LoadCity
nonServerVars == <<routeVars, stepAVars, stepBVars, codecVars, geoVars,
                   transformVars, unoVars, routesVars, parseVars, fareVars,
                   concVars, genVars, wayVars, coordVars, walkVars,
                   tripIdsVars>>
NonServerUnused ==
    /\ RouteUnused
    /\ CodecUnused
    /\ GeoUnused
    /\ TransformUnused
    /\ UnoUnused
    /\ RoutesUnused
    /\ ParseUnused
    /\ FareUnused
    /\ ConcUnused
    /\ GenUnused
    /\ WayUnused
    /\ CoordUnused
    /\ WalkUnused
    /\ TripIdsUnused
\* everything but the route loop of LoadCity
nonRoutesVars == <<codecVars, geoVars, transformVars, unoVars, serverVars,
                   parseVars, fareVars, concVars, genVars, wayVars,
                   coordVars, walkVars, tripIdsVars>>
NonRoutesUnused ==
    /\ CodecUnused
    /\ GeoUnused
    /\ TransformUnused
    /\ UnoUnused
    /\ ServerUnused
    /\ ParseUnused
    /\ FareUnused
    /\ ConcUnused
    /\ GenUnused
    /\ WayUnused
    /\ CoordUnused
    /\ WalkUnused
    /\ TripIdsUnused
\* everything but the parse of a timing record
nonParseVars == <<routeVars, stepAVars, stepBVars, codecVars, geoVars,
                  transformVars, unoVars, serverVars, routesVars, fareVars,
                  concVars, genVars, wayVars, coordVars, walkVars,
                  tripIdsVars>>
NonParseUnused ==
    /\ RouteUnused
    /\ CodecUnused
    /\ GeoUnused
    /\ TransformUnused
    /\ UnoUnused
    /\ ServerUnused
    /\ RoutesUnused
    /\ FareUnused
    /\ ConcUnused
    /\ GenUnused
    /\ WayUnused
    /\ CoordUnused
    /\ WalkUnused
    /\ TripIdsUnused
\* everything but the fare tables
nonFareVars == <<routeVars, stepAVars, stepBVars, codecVars, geoVars,
                 transformVars, unoVars, serverVars, routesVars, parseVars,
                 concVars, genVars, wayVars, coordVars, walkVars,
                 tripIdsVars>>
NonFareUnused ==
    /\ RouteUnused
    /\ CodecUnused
    /\ GeoUnused
    /\ TransformUnused
    /\ UnoUnused
    /\ ServerUnused
    /\ RoutesUnused
    /\ ParseUnused
    /\ ConcUnused
    /\ GenUnused
    /\ WayUnused
    /\ CoordUnused
    /\ WalkUnused
    /\ TripIdsUnused
\* everything but the concurrent loads
nonConcVars == <<routeVars, stepAVars, stepBVars, codecVars, geoVars,
                 transformVars, unoVars, serverVars, routesVars, parseVars,
                 fareVars, genVars, wayVars, coordVars, walkVars,
                 tripIdsVars>>
NonConcUnused ==
    /\ RouteUnused
    /\ CodecUnused
    /\ GeoUnused
    /\ TransformUnused
    /\ UnoUnused
    /\ ServerUnused
    /\ RoutesUnused
    /\ ParseUnused
    /\ FareUnused
    /\ GenUnused
    /\ WayUnused
    /\ CoordUnused
    /\ WalkUnused
    /\ TripIdsUnused
\* everything but the generation operations
nonGenVars == <<routeVars, stepAVars, stepBVars, codecVars, geoVars,
                transformVars, unoVars, serverVars, routesVars, parseVars,
                fareVars, concVars, wayVars, coordVars, walkVars,
                tripIdsVars>>
NonGenUnused ==
    /\ RouteUnused
    /\ CodecUnused
    /\ GeoUnused
    /\ TransformUnused
    /\ UnoUnused
    /\ ServerUnused
    /\ RoutesUnused
    /\ ParseUnused
    /\ FareUnused
    /\ ConcUnused
    /\ WayUnused
    /\ CoordUnused
    /\ WalkUnused
    /\ TripIdsUnused
\* everything but the schedule-position lookup
nonWayVars == <<routeVars, stepAVars, stepBVars, codecVars, geoVars,
                transformVars, unoVars, serverVars, routesVars, parseVars,
                fareVars, concVars, genVars, coordVars, walkVars,
                tripIdsVars>>
NonWayUnused ==
    /\ RouteUnused
    /\ CodecUnused
    /\ GeoUnused
    /\ TransformUnused
    /\ UnoUnused
    /\ ServerUnused
    /\ RoutesUnused
    /\ ParseUnused
    /\ FareUnused
    /\ ConcUnused
    /\ GenUnused
    /\ CoordUnused
    /\ WalkUnused
    /\ TripIdsUnused
\* everything but the coordinates of stations and shapes
nonCoordVars == <<routeVars, stepAVars, stepBVars, codecVars, geoVars,
                  transformVars, unoVars, serverVars, routesVars, parseVars,
                  fareVars, concVars, genVars, wayVars, walkVars,
                  tripIdsVars>>
NonCoordUnused ==
    /\ RouteUnused
    /\ CodecUnused
    /\ GeoUnused
    /\ TransformUnused
    /\ UnoUnused
    /\ ServerUnused
    /\ RoutesUnused
    /\ ParseUnused
    /\ FareUnused
    /\ ConcUnused
    /\ GenUnused
    /\ WayUnused
    /\ WalkUnused
    /\ TripIdsUnused
\* everything but the block loop of DecodeGeoDiff
nonWalkVars == <<routeVars, stepAVars, stepBVars, codecVars, geoVars,
                 transformVars, unoVars, serverVars, routesVars, parseVars,
                 fareVars, concVars, genVars, wayVars, coordVars,
                 tripIdsVars>>
NonWalkUnused ==
    /\ RouteUnused
    /\ CodecUnused
    /\ GeoUnused
    /\ TransformUnused
    /\ UnoUnused
    /\ ServerUnused
    /\ RoutesUnused
    /\ ParseUnused
    /\ FareUnused
    /\ ConcUnused
    /\ GenUnused
    /\ WayUnused
    /\ CoordUnused
    /\ TripIdsUnused
\* everything but the trip and stop-time outputs
nonTripIdsVars == <<codecVars, geoVars, transformVars, unoVars, serverVars,
                    routesVars, parseVars, fareVars, concVars, genVars,
                    wayVars, coordVars, walkVars>>
NonTripIdsUnused ==
    /\ CodecUnused
    /\ GeoUnused
    /\ TransformUnused
    /\ UnoUnused
    /\ ServerUnused
    /\ RoutesUnused
    /\ ParseUnused
    /\ FareUnused
    /\ ConcUnused
    /\ GenUnused
    /\ WayUnused
    /\ CoordUnused
    /\ WalkUnused

\* --------------------------------------------------------------- inputs
\* route.Stations of a route of n stations: the stations before the terminal
\* carry the indices 0..n-2 in any order, the terminal carries index n-1
StationListsOfLen(n) ==
    {s \in [1..n -> 0..(n - 1)] :
        /\ s[n] = n - 1
        /\ \A i, j \in 1..n : i # j => s[i] # s[j]}
RouteStationLists == UNION {StationListsOfLen(n) : n \in 2..MaxStations}
RouteScheduleLists == {[i \in 1..k |-> i] : k \in 1..MaxSchedules}
TimingTables == UNION {[1..n -> TimingRecords] : n \in 1..MaxRecords}

NumHops == Len(Stations) - 1

\* ------------------------------------------------- station-index lookup
\* station_indices of all stations but the terminal one, sorted ascending;
\* station_to_schedule_idx[station_indices[i]] = i (the last i wins).
StationToScheduleIndex(stations) ==
    LET n == Len(stations) - 1
    IN  {<<stations[j], Cardinality({k \in 1..n : stations[k] <= stations[j]}) - 1>> :
            j \in 1..n}

\* ------------------------------------------------------------- Step A
\* the count test with the station count in place of the hop count
TakesBoundaryPath_StationCount(lines, stations, schedules) ==
    Len(lines) # Len(stations) * Len(schedules)

TakesBoundaryPath(lines, stations, schedules) ==
    Len(lines) # (Len(stations) - 1) * Len(schedules)

IsWraparound(depart_min, last) == depart_min < last

\* the flush test with the station count in place of the hop count
StartsNewSchedule_StationCount(current, stations) ==
    Len(current) = Len(stations)

StartsNewSchedule(current, stations) == Len(current) = Len(stations) - 1

FixedCell(depart_min, arrive_next_min) == {<<arrive_next_min, depart_min>>}

ChoosePath ==
    /\ pc = "start"
    /\ IF TakesBoundaryPath(schedule_csv_lines, Stations, Schedules)
       THEN /\ pc' = "boundary"
            /\ schedule_station_arrivals_departures' = <<{}>>
       ELSE /\ pc' = "fixed"
            /\ schedule_station_arrivals_departures' = <<>>
    /\ UNCHANGED <<routeVars, csv_idx, station_arrivals_departures, station_idx,
                   last_depart_min, record_cell, stepBVars, codecVars, otherVars>>

BoundaryRead ==
    /\ pc = "boundary"
    /\ csv_idx < Len(schedule_csv_lines)
    /\ LET depart_min == schedule_csv_lines[csv_idx + 1][1]
           arrive_next_min == schedule_csv_lines[csv_idx + 1][2]
           wrap == IsWraparound(depart_min, last_depart_min)
           flush == wrap /\ StartsNewSchedule(schedule_station_arrivals_departures, Stations)
           sad1 == IF flush
                   THEN Append(station_arrivals_departures,
                               schedule_station_arrivals_departures)
                   ELSE station_arrivals_departures
           cur1 == IF flush THEN <<{}>>
                   ELSE IF wrap THEN Append(schedule_station_arrivals_departures, {})
                   ELSE schedule_station_arrivals_departures
           idx1 == IF flush THEN 0
                   ELSE IF wrap THEN station_idx + 1
                   ELSE station_idx
           cur2 == [cur1 EXCEPT ![idx1 + 1] = MapPut(@, arrive_next_min, depart_min)]
           is_last == csv_idx = Len(schedule_csv_lines) - 1
       IN  /\ schedule_station_arrivals_departures' = cur2
           /\ station_idx' = idx1
           /\ last_depart_min' = depart_min
           /\ record_cell' = Append(record_cell, <<Len(sad1), idx1>>)
           /\ station_arrivals_departures' =
                 IF is_last THEN Append(sad1, cur2) ELSE sad1
           /\ pc' = IF is_last THEN "sched" ELSE "boundary"
    /\ csv_idx' = csv_idx + 1
    /\ UNCHANGED <<routeVars, stepBVars, codecVars, otherVars>>

FixedRead ==
    /\ pc = "fixed"
    /\ csv_idx < NumHops * Len(Schedules)
    /\ LET depart_min == schedule_csv_lines[csv_idx + 1][1]
           arrive_next_min == schedule_csv_lines[csv_idx + 1][2]
           cur1 == Append(schedule_station_arrivals_departures,
                          FixedCell(depart_min, arrive_next_min))
           full == Len(cur1) = NumHops
       IN  /\ record_cell' = Append(record_cell,
                 <<Len(station_arrivals_departures),
                   Len(schedule_station_arrivals_departures)>>)
           /\ station_arrivals_departures' =
                 IF full THEN Append(station_arrivals_departures, cur1)
                 ELSE station_arrivals_departures
           /\ schedule_station_arrivals_departures' = IF full THEN <<>> ELSE cur1
    /\ csv_idx' = csv_idx + 1
    /\ pc' = IF csv_idx' = NumHops * Len(Schedules) THEN "sched" ELSE "fixed"
    /\ UNCHANGED <<routeVars, station_idx, last_depart_min, stepBVars, codecVars, otherVars>>

\* ------------------------------------------------------------- Step B
Visit(pos, minutes) ==
    [Station |-> Stations[pos + 1], ArrivalAndDepartMinutes |-> minutes]

\* the two minutes of a new trip exchanged
NewTrip_MinutesSwapped(pos, depart_min, arrival_next_min) ==
    [TripEnded |-> FALSE,
     Visits |-> <<Visit(pos, arrival_next_min), Visit(pos + 1, depart_min)>>]

\* a new trip seeded with the next station only
NewTrip_NextStationOnly(pos, depart_min, arrival_next_min) ==
    [TripEnded |-> FALSE, Visits |-> <<Visit(pos + 1, arrival_next_min)>>]

\* MetromanTrip literal of a trip that starts at route position pos
NewTrip(pos, depart_min, arrival_next_min) ==
    [TripEnded |-> FALSE,
     Visits |-> <<Visit(pos, depart_min), Visit(pos + 1, arrival_next_min)>>]

\* the current station appended instead of the next one
ExtendedTrip_CurrentStation(trip, pos, arrival_next_min) ==
    [TripEnded |-> FALSE,
     Visits |-> Append(trip.Visits, Visit(pos, arrival_next_min))]

\* trips[trip_idx].Visits = append(...); trips[trip_idx].TripEnded = false
ExtendedTrip(trip, pos, arrival_next_min) ==
    [TripEnded |-> FALSE,
     Visits |-> Append(trip.Visits, Visit(pos + 1, arrival_next_min))]

\* the marking the comments of lines 630-639 describe: by index, on the slice
MarkEndedInPlace(ts) == [i \in 1..Len(ts) |-> [ts[i] EXCEPT !.TripEnded = TRUE]]

\* "for _, trip := range trips { trip.TripEnded = true }": trips is a
\* []MetromanTrip, so the loop variable is a copy of the element and the
\* assignment never reaches the slice.
MarkEnded(ts) == ts

\* trip_ended[trip_idx] on a map[int]bool: false for a missing key
TripEndedAt(te, trip_idx) ==
    IF trip_idx + 1 \in DOMAIN te THEN te[trip_idx + 1] ELSE FALSE

\* the cell Step B reads at route position station_i
SchedulePosition(pos) == MapGet(StationToScheduleIndex(Stations), Stations[pos + 1])

CurrentStructure == station_arrivals_departures[sched_i + 1]

BeginSchedule ==
    /\ pc = "sched"
    /\ sched_i < Len(station_arrivals_departures)
    /\ trips' = <<>>
    /\ arrival_trip_assigned' = {}
    /\ last_arrival_trip_assigned' = {}
    /\ station_i' = 0
    /\ pc' = "hop"
    /\ UNCHANGED <<routeVars, stepAVars, sched_i, trip_ended, pending,
                   trips_by_schedule, Trips, codecVars, otherVars>>

FinishRoute ==
    /\ pc = "sched"
    /\ sched_i = Len(station_arrivals_departures)
    /\ Trips' = trips_by_schedule
    /\ pc' = "done"
    /\ UNCHANGED <<routeVars, stepAVars, sched_i, station_i, trips, trip_ended,
                   arrival_trip_assigned, last_arrival_trip_assigned, pending,
                   trips_by_schedule, codecVars, otherVars>>

\* the slice index of line 628 is past the cells of the structure
HopPanic ==
    /\ pc = "hop"
    /\ station_i < NumHops
    /\ SchedulePosition(station_i) >= Len(CurrentStructure)
    /\ pc' = "panic"
    /\ UNCHANGED <<routeVars, stepAVars, stepBVars, codecVars, otherVars>>

\* the index of the hop before kept as the current one
FreshIndex_Kept(rotated) == rotated

\* arrival_trip_assigned = make(map[int]int), after the index of the hop
\* before was rotated into last_arrival_trip_assigned
FreshIndex(rotated) == {}

BeginHop ==
    /\ pc = "hop"
    /\ station_i < NumHops
    /\ SchedulePosition(station_i) < Len(CurrentStructure)
    /\ LET this_arrivals_departures == CurrentStructure[SchedulePosition(station_i) + 1]
       IN  /\ pending' = this_arrivals_departures
           /\ IF this_arrivals_departures = {}
              THEN /\ station_i' = station_i + 1
                   /\ pc' = "hop"
              ELSE /\ station_i' = station_i
                   /\ pc' = "entry"
    /\ trip_ended' = [i \in 1..Len(trips) |-> trips[i].TripEnded]
    /\ trips' = MarkEnded(trips)
    /\ IF station_i = 0
       THEN UNCHANGED <<arrival_trip_assigned, last_arrival_trip_assigned>>
       ELSE /\ last_arrival_trip_assigned' = arrival_trip_assigned
            /\ arrival_trip_assigned' = FreshIndex(arrival_trip_assigned)
    /\ UNCHANGED <<routeVars, stepAVars, sched_i, trips_by_schedule, Trips, codecVars, otherVars>>

EndSchedule ==
    /\ pc = "hop"
    /\ station_i = NumHops
    /\ trips_by_schedule' = Append(trips_by_schedule, trips)
    /\ sched_i' = sched_i + 1
    /\ pc' = "sched"
    /\ UNCHANGED <<routeVars, stepAVars, station_i, trips, trip_ended,
                   arrival_trip_assigned, last_arrival_trip_assigned, pending,
                   Trips, codecVars, otherVars>>

\* one iteration of "for arrival_next_min, depart_min := range this_arrivals_departures"
Iterated(e) ==
    /\ pending' = pending \ {e}
    /\ IF pending' = {}
       THEN /\ station_i' = station_i + 1
            /\ pc' = "hop"
       ELSE /\ station_i' = station_i
            /\ pc' = "entry"
    /\ UNCHANGED <<routeVars, stepAVars, sched_i, trip_ended,
                   last_arrival_trip_assigned, trips_by_schedule, Trips, codecVars, otherVars>>

FirstHopTrip ==
    /\ pc = "entry"
    /\ station_i = 0
    /\ \E e \in pending :
          LET arrival_next_min == e[1]
              depart_min == e[2]
          IN  /\ trips' = Append(trips, NewTrip(0, depart_min, arrival_next_min))
              /\ arrival_trip_assigned' =
                    MapPut(arrival_trip_assigned, arrival_next_min, Len(trips))
              /\ Iterated(e)

\* the ended test without its negation: only ended trips continue
ContinuesTrip_EndedOnly(depart_min) ==
    /\ MapHas(last_arrival_trip_assigned, depart_min)
    /\ TripEndedAt(trip_ended, MapGet(last_arrival_trip_assigned, depart_min))

ContinuesTrip(depart_min) ==
    /\ MapHas(last_arrival_trip_assigned, depart_min)
    /\ ~TripEndedAt(trip_ended, MapGet(last_arrival_trip_assigned, depart_min))

ExtendTrip ==
    /\ pc = "entry"
    /\ station_i # 0
    /\ \E e \in pending :
          LET arrival_next_min == e[1]
              depart_min == e[2]
          IN  /\ ContinuesTrip(depart_min)
              /\ LET trip_idx == MapGet(last_arrival_trip_assigned, depart_min)
                 IN  /\ trips' = [trips EXCEPT ![trip_idx + 1] =
                                     ExtendedTrip(@, station_i, arrival_next_min)]
                     /\ arrival_trip_assigned' =
                           MapPut(arrival_trip_assigned, arrival_next_min, trip_idx)
              /\ Iterated(e)

StartNewTrip ==
    /\ pc = "entry"
    /\ station_i # 0
    /\ \E e \in pending :
          LET arrival_next_min == e[1]
              depart_min == e[2]
          IN  /\ ~ContinuesTrip(depart_min)
              /\ trips' = Append(trips, NewTrip(station_i, depart_min, arrival_next_min))
              /\ arrival_trip_assigned' =
                    MapPut(arrival_trip_assigned, arrival_next_min, Len(trips))
              /\ Iterated(e)

\* ------------------------------------------------------- specification
Init ==
    /\ pc = "start"
    /\ Stations \in RouteStationLists
    /\ Schedules \in RouteScheduleLists
    /\ schedule_csv_lines \in TimingTables
    /\ csv_idx = 0
    /\ station_arrivals_departures = <<>>
    /\ schedule_station_arrivals_departures = <<>>
    /\ station_idx = 0
    /\ last_depart_min = 0
    /\ record_cell = <<>>
    /\ sched_i = 0
    /\ station_i = 0
    /\ trips = <<>>
    /\ trip_ended = <<>>
    /\ arrival_trip_assigned = {}
    /\ last_arrival_trip_assigned = {}
    /\ pending = {}
    /\ trips_by_schedule = <<>>
    /\ Trips = <<>>
    /\ char = 0
    /\ value = {}
    /\ OtherUnused

Next ==
    \/ ChoosePath
    \/ BoundaryRead
    \/ FixedRead
    \/ BeginSchedule
    \/ FinishRoute
    \/ HopPanic
    \/ BeginHop
    \/ EndSchedule
    \/ FirstHopTrip
    \/ ExtendTrip
    \/ StartNewTrip

Spec == Init /\ [][Next]_vars

\* --------------------------------------------------------- value codec
\* byte values of the characters the switch of ParseChar compares with
Byte(c) ==
    CASE c = "A" -> 65 [] c = "Z" -> 90
      [] c = "a" -> 97 [] c = "z" -> 122
      [] c = "0" -> 48 [] c = "9" -> 57
      [] c = "+" -> 43 [] c = "/" -> 47

Bytes == 0..255

\* the digits without their offset of 52
ParseChar_DigitOffset(c) ==
    CASE c >= Byte("A") /\ c <= Byte("Z") -> c - Byte("A")
      [] c >= Byte("a") /\ c <= Byte("z") -> c - Byte("a") + 26
      [] c >= Byte("0") /\ c <= Byte("9") -> c - Byte("0")
      [] c = Byte("+") -> 62
      [] c = Byte("/") -> 63
      [] OTHER -> -1

ParseChar(c) ==
    CASE c >= Byte("A") /\ c <= Byte("Z") -> c - Byte("A")
      [] c >= Byte("a") /\ c <= Byte("z") -> c - Byte("a") + 26
      [] c >= Byte("0") /\ c <= Byte("9") -> c - Byte("0") + 52
      [] c = Byte("+") -> 62
      [] c = Byte("/") -> 63
      [] OTHER -> -1

CallParseChar ==
    /\ pc = "codec"
    /\ value = {}
    /\ value' = {ParseChar(char)}
    /\ UNCHANGED <<pc, char, routeVars, stepAVars, stepBVars, otherVars>>

CodecInit ==
    /\ pc = "codec"
    /\ char \in Bytes
    /\ value = {}
    /\ Stations = <<0, 1>>
    /\ Schedules = <<1>>
    /\ schedule_csv_lines = <<>>
    /\ csv_idx = 0
    /\ station_arrivals_departures = <<>>
    /\ schedule_station_arrivals_departures = <<>>
    /\ station_idx = 0
    /\ last_depart_min = 0
    /\ record_cell = <<>>
    /\ sched_i = 0
    /\ station_i = 0
    /\ trips = <<>>
    /\ trip_ended = <<>>
    /\ arrival_trip_assigned = {}
    /\ last_arrival_trip_assigned = {}
    /\ pending = {}
    /\ trips_by_schedule = <<>>
    /\ Trips = <<>>
    /\ OtherUnused

CodecNext == CallParseChar

CodecSpec == CodecInit /\ [][CodecNext]_vars

\* ================================================================ claims
\* helpers of the claims' formulas
CountMatches == Len(schedule_csv_lines) = NumHops * Len(Schedules)
StepADone == pc \in {"sched", "hop", "entry", "done", "panic"}
\* a hop of the current schedule has been walked to its end
HopWalked == pc = "hop" /\ station_i >= 1
\* trips created or extended in the hop walked last: each iterated entry
\* wrote its trip under its own arrival-minute
TouchedInLastHop == MapValues(arrival_trip_assigned)
PosOf(station) == CHOOSE p \in 0..NumHops : Stations[p + 1] = station
FollowsRoute(trip) ==
    LET s == PosOf(trip.Visits[1].Station)
    IN  /\ s + Len(trip.Visits) <= Len(Stations)
        /\ \A k \in 1..Len(trip.Visits) : trip.Visits[k].Station = Stations[s + k]

\* C1: after a hop has been walked, every trip that was neither created nor
\* extended in that hop has TripEnded = TRUE.
C1_UntouchedTripsEnded ==
    HopWalked =>
        \A i \in 1..Len(trips) :
            (i - 1) \notin TouchedInLastHop => trips[i].TripEnded = TRUE

\* C2: after the load, the k-th visit of every trip of the route is at route
\* position s + k, s the position of its first visit; so no position is
\* visited twice and no trip has more visits than the route has stations.
C2_VisitsFollowRoute ==
    pc = "done" =>
        \A s \in 1..Len(Trips) : \A t \in 1..Len(Trips[s]) : FollowsRoute(Trips[s][t])

\* C3: after the load of a route with a timing table, route.Trips holds one
\* trip collection per assigned schedule.
C3_OneCollectionPerSchedule ==
    pc = "done" => Len(Trips) = Len(Schedules)

\* C4: the path is chosen by the record count alone; when the count is
\* (stations-1) x schedules, record k is the single entry of hop
\* k mod (stations-1) of schedule k div (stations-1), whatever its minutes
\* are; for every other count Step A runs the boundary detection.
FixedStructures ==
    [s \in 1..Len(Schedules) |->
        [h \in 1..NumHops |->
            LET r == schedule_csv_lines[(s - 1) * NumHops + h]
            IN  {<<r[2], r[1]>>}]]

C4_PathByCountAlone ==
    /\ pc = "fixed" => CountMatches
    /\ pc = "boundary" => ~CountMatches
    /\ (StepADone /\ CountMatches) =>
          /\ station_arrivals_departures = FixedStructures
          /\ Len(record_cell) = Len(schedule_csv_lines)
          /\ \A k \in 1..Len(record_cell) :
                record_cell[k] = <<(k - 1) \div NumHops, (k - 1) % NumHops>>

\* two schedules segmented by count although the departures decrease
C4_Witness ==
    /\ pc = "done"
    /\ CountMatches
    /\ Len(station_arrivals_departures) = 2
    /\ schedule_csv_lines[2][1] < schedule_csv_lines[1][1]

\* C5: on the boundary path a record goes to the current cell unless its
\* departure-minute is smaller than the preceding record's; then it opens a
\* new cell: of a new schedule (structure flushed, hop 0) exactly when the
\* structure has stations-1 cells, else the next hop of the same schedule.
\* No structure has more than stations-1 cells and every structure flushed
\* by a wraparound has exactly stations-1.
C5_ReadStep ==
    (pc = "boundary" /\ csv_idx' = csv_idx + 1) =>
        LET k == csv_idx + 1
            d == schedule_csv_lines[k][1]
            a == schedule_csv_lines[k][2]
            smaller == k > 1 /\ d < schedule_csv_lines[k - 1][1]
            cur == schedule_station_arrivals_departures
            flushed == Len(station_arrivals_departures)
        IN  /\ (smaller /\ Len(cur) = NumHops) =>
                  /\ Len(station_arrivals_departures') >= flushed + 1
                  /\ station_arrivals_departures'[flushed + 1] = cur
                  /\ station_idx' = 0
                  /\ schedule_station_arrivals_departures' = <<{<<a, d>>}>>
            /\ (smaller /\ Len(cur) # NumHops) =>
                  /\ station_idx' = station_idx + 1
                  /\ schedule_station_arrivals_departures' = Append(cur, {<<a, d>>})
                  /\ \A s \in 1..flushed :
                        station_arrivals_departures'[s] = station_arrivals_departures[s]
            /\ ~smaller =>
                  /\ station_idx' = station_idx
                  /\ Len(schedule_station_arrivals_departures') = Len(cur)
                  /\ \A h \in 1..Len(cur) :
                        schedule_station_arrivals_departures'[h] =
                            IF h = station_idx + 1
                            THEN {p \in cur[h] : p[1] # a} \cup {<<a, d>>}
                            ELSE cur[h]

C5_CellCounts ==
    /\ \A s \in 1..Len(station_arrivals_departures) :
          Len(station_arrivals_departures[s]) <= NumHops
    /\ pc = "boundary" =>
          \A s \in 1..Len(station_arrivals_departures) :
              Len(station_arrivals_departures[s]) = NumHops
    /\ (StepADone /\ ~CountMatches) =>
          \A s \in 1..(Len(station_arrivals_departures) - 1) :
              Len(station_arrivals_departures[s]) = NumHops

C5_BoundaryDetection == [][C5_ReadStep]_vars /\ []C5_CellCounts

\* a wraparound has flushed a full structure and Step A reads on
C5_Witness ==
    /\ pc = "boundary"
    /\ Len(station_arrivals_departures) = 1
    /\ Len(station_arrivals_departures[1]) = NumHops
    /\ station_idx = 0

\* the entry of this_arrivals_departures iterated by the step
IteratesEntry == pc = "entry" /\ pending' # pending
IteratedEntry == CHOOSE e \in pending : e \notin pending'
VisitAt(pos, minutes) ==
    [Station |-> Stations[pos + 1], ArrivalAndDepartMinutes |-> minutes]

\* records of the table written to the cell Step B reads at route position 0
\* of structure number s (0-based)
FirstHopRecordsOf(s) ==
    {k \in 1..Len(record_cell) : record_cell[k] = <<s, SchedulePosition(0)>>}
LastWithArrival(ks, a) ==
    CHOOSE k \in ks :
        /\ schedule_csv_lines[k][2] = a
        /\ \A j \in ks : schedule_csv_lines[j][2] = a => j <= k
ArrivalsOf(ks) == {schedule_csv_lines[k][2] : k \in ks}
FirstHopWalked == pc = "hop" /\ station_i = 1

\* C6 as claimed: after the first hop there is one two-visit trip per
\* first-hop timing record.
C6_OneTripPerFirstHopRecord ==
    FirstHopWalked =>
        /\ Len(trips) = Cardinality(FirstHopRecordsOf(sched_i))
        /\ \A k \in FirstHopRecordsOf(sched_i) :
              \E i \in 1..Len(trips) :
                  trips[i].Visits = <<VisitAt(0, schedule_csv_lines[k][1]),
                                      VisitAt(1, schedule_csv_lines[k][2])>>

\* C6 amended: after the first hop there is exactly one trip per distinct
\* arrival-minute of the first-hop records, with two visits: the first
\* station at the departure-minute of the last record with that
\* arrival-minute and the second station at the arrival-minute; on a
\* 2-station route these are all the trips of the schedule.
C6_OneTripPerFirstHopArrival ==
    /\ FirstHopWalked =>
          LET ks == FirstHopRecordsOf(sched_i)
          IN  /\ Len(trips) = Cardinality(ArrivalsOf(ks))
              /\ \A i \in 1..Len(trips) :
                    /\ Len(trips[i].Visits) = 2
                    /\ trips[i].TripEnded = FALSE
              /\ \A a \in ArrivalsOf(ks) :
                    Cardinality({i \in 1..Len(trips) :
                        trips[i].Visits =
                            <<VisitAt(0, schedule_csv_lines[LastWithArrival(ks, a)][1]),
                              VisitAt(1, a)>>}) = 1
    /\ (pc = "done" /\ NumHops = 1) =>
          \A s \in 1..Len(Trips) :
              Len(Trips[s]) = Cardinality(ArrivalsOf(FirstHopRecordsOf(s - 1)))

\* two first-hop records share their arrival-minute and leave one trip
C6_Witness ==
    /\ FirstHopWalked
    /\ Cardinality(FirstHopRecordsOf(sched_i)) = 2
    /\ Len(trips) = 1

\* C7: at a hop h >= 1 an entry (d, a) whose d is an arrival-minute indexed
\* in hop h-1 by a trip not ended appends the one visit (station h+1 at a)
\* to that trip, creates no trip and indexes the trip under a.
C7_Step ==
    (IteratesEntry /\ station_i >= 1) =>
        LET a == IteratedEntry[1]
            d == IteratedEntry[2]
        IN  (MapHas(last_arrival_trip_assigned, d)
             /\ ~TripEndedAt(trip_ended, MapGet(last_arrival_trip_assigned, d))) =>
                LET t == MapGet(last_arrival_trip_assigned, d) + 1
                IN  /\ Len(trips') = Len(trips)
                    /\ \A i \in 1..Len(trips) : i # t => trips'[i] = trips[i]
                    /\ trips'[t].Visits =
                          Append(trips[t].Visits, VisitAt(station_i + 1, a))
                    /\ MapHas(arrival_trip_assigned', a)
                    /\ MapGet(arrival_trip_assigned', a) = t - 1

C7_MatchExtendsTrip == [][C7_Step]_vars

\* a trip created at the first hop was extended at hop 1
C7_Witness ==
    /\ pc = "hop"
    /\ station_i = 2
    /\ \E i \in 1..Len(trips) :
          /\ Len(trips[i].Visits) = 3
          /\ MapHas(arrival_trip_assigned, trips[i].Visits[3].ArrivalAndDepartMinutes)

\* C8: at a hop h >= 1 an entry (d, a) whose d is no arrival-minute indexed
\* in hop h-1 starts a new trip of two visits (station h at d, station h+1
\* at a), leaves every existing trip as it is and raises no error.
C8_Step ==
    (IteratesEntry /\ station_i >= 1) =>
        LET a == IteratedEntry[1]
            d == IteratedEntry[2]
        IN  ~MapHas(last_arrival_trip_assigned, d) =>
                /\ trips' = Append(trips,
                      [TripEnded |-> FALSE,
                       Visits |-> <<VisitAt(station_i, d), VisitAt(station_i + 1, a)>>])
                /\ pc' \in {"entry", "hop"}
                /\ MapHas(arrival_trip_assigned', a)
                /\ MapGet(arrival_trip_assigned', a) = Len(trips)

C8_NoMatchStartsTrip == [][C8_Step]_vars

\* a trip that starts at the second station of the route exists beside an
\* untouched first-hop trip
C8_Witness ==
    /\ pc = "hop"
    /\ station_i = 2
    /\ \E i, j \in 1..Len(trips) :
          /\ trips[i].Visits[1].Station = Stations[2]
          /\ Len(trips[j].Visits) = 2
          /\ trips[j].Visits[1].Station = Stations[1]

\* the record of schedule s (1-based) that Step B reads at route position h
\* on the fixed-count path
HopRecord(s, h) == schedule_csv_lines[(s - 1) * NumHops + SchedulePosition(h) + 1]
\* hops whose record does not depart at the minute the record of the hop
\* before arrives
Breaks(s) == {h \in 1..(NumHops - 1) : HopRecord(s, h)[1] # HopRecord(s, h - 1)[2]}

\* C9 as claimed: with (stations-1) x schedules records every schedule ends
\* with one trip per first-hop record.
C9_TripPerFirstHopRecord ==
    (pc = "done" /\ CountMatches) =>
        \A s \in 1..Len(Trips) :
            Len(Trips[s]) = Cardinality(FirstHopRecordsOf(s - 1))

\* C9 amended: with (stations-1) x schedules records the load takes the
\* fixed-count path and every schedule ends with one trip for its first-hop
\* record plus one trip for each later hop whose record does not depart at
\* the minute the record of the hop before arrives (hops in station order).
C9_FixedCountTrips ==
    /\ CountMatches => pc \notin {"boundary", "panic"}
    /\ (pc = "done" /\ CountMatches) =>
          /\ Len(Trips) = Len(Schedules)
          /\ \A s \in 1..Len(Trips) :
                /\ Cardinality(FirstHopRecordsOf(s - 1)) = 1
                /\ Len(Trips[s]) = 1 + Cardinality(Breaks(s))

\* a fixed-count schedule of two hops ends with two trips
C9_Witness ==
    /\ pc = "done"
    /\ CountMatches
    /\ NumHops = 2
    /\ Len(Trips[1]) = 2

\* the alphabet, as byte values: A-Z, a-z, 0-9, +, /
Alphabet ==
    <<
      65, 66, 67, 68, 69, 70, 71, 72, 73, 74, 75, 76, 77, 78, 79, 80,
      81, 82, 83, 84, 85, 86, 87, 88, 89, 90, 97, 98, 99, 100, 101, 102,
      103, 104, 105, 106, 107, 108, 109, 110, 111, 112, 113, 114, 115, 116, 117, 118,
      119, 120, 121, 122, 48, 49, 50, 51, 52, 53, 54, 55, 56, 57, 43, 47>>

\* C10: ParseChar returns for the alphabet character number v (0-based) the
\* value v, and -1 for every byte that is not in the alphabet.
C10_ParseCharBijection ==
    \A v \in value :
        IF \E i \in 1..64 : Alphabet[i] = char
        THEN v \in 0..63 /\ Alphabet[v + 1] = char
        ELSE v = -1

\* the last alphabet character decoded
C10_Witness == char = 47 /\ value = {63}

\* ====================================================== geometry codec
\* byte values of the characters the geometry decoder compares with
Symbol(c) ==
    CASE c = "=" -> 61 [] c = "-" -> 45 [] c = ";" -> 59
      [] c = "." -> 46 [] c = "*" -> 42 [] c = "|" -> 124

GEO_TYPE_AREA == 0
GEO_TYPE_LINE == 1
GEO_TYPE_POINT == 2

MAX_DELTA_VALUE == 8388608

\* the zero values Mercator{} and GeoDiff{} (a nil slice has length 0)
MercatorZero == [X |-> 0, Y |-> 0]
GeoDiffZero == [Type |-> 0, Points |-> <<>>]

GetGeoType(c) ==
    CASE c = Symbol(".") -> GEO_TYPE_POINT
      [] c = Symbol("-") -> GEO_TYPE_LINE
      [] c = Symbol("*") -> GEO_TYPE_AREA
      [] OTHER -> -1

\* sum of char_code[i] << (6 * i) for i in 0..n-1
RECURSIVE ShiftSum(_, _)
ShiftSum(char_code, n) ==
    IF n = 0 THEN 0 ELSE ShiftSum(char_code, n - 1) + char_code[n - 1] * 64 ^ (n - 1)

\* Parse13Block with the y characters left unchecked
Parse13Block_YUnchecked(block, current_point) ==
    LET char_code_x == [i \in 0..5 |-> ParseChar(block[1 + i + 1])]
        char_code_y == [i \in 0..5 |-> ParseChar(block[7 + i + 1])]
    IN  IF \E i \in 0..5 : char_code_x[i] < 0
        THEN [ok |-> FALSE, current_point |-> current_point]
        ELSE [ok |-> TRUE,
              current_point |-> [X |-> ShiftSum(char_code_x, 6),
                                 Y |-> ShiftSum(char_code_y, 6)]]

\* block[k] of the source is block[k + 1] here
\* the absolute value added to the running point instead of replacing it
Parse13Block_Accumulates(block, current_point) ==
    LET char_code_x == [i \in 0..5 |-> ParseChar(block[1 + i + 1])]
        char_code_y == [i \in 0..5 |-> ParseChar(block[7 + i + 1])]
    IN  IF \E i \in 0..5 : char_code_x[i] < 0 \/ char_code_y[i] < 0
        THEN [ok |-> FALSE, current_point |-> current_point]
        ELSE [ok |-> TRUE,
              current_point |-> [X |-> current_point.X + ShiftSum(char_code_x, 6),
                                 Y |-> current_point.Y + ShiftSum(char_code_y, 6)]]

Parse13Block(block, current_point) ==
    LET char_code_x == [i \in 0..5 |-> ParseChar(block[1 + i + 1])]
        char_code_y == [i \in 0..5 |-> ParseChar(block[7 + i + 1])]
    IN  IF \E i \in 0..5 : char_code_x[i] < 0 \/ char_code_y[i] < 0
        THEN [ok |-> FALSE, current_point |-> current_point]
        ELSE [ok |-> TRUE,
              current_point |-> [X |-> ShiftSum(char_code_x, 6),
                                 Y |-> ShiftSum(char_code_y, 6)]]

\* the fold with the bound itself folded too
FoldDelta_AtBound(delta) ==
    IF delta >= MAX_DELTA_VALUE THEN MAX_DELTA_VALUE - delta ELSE delta

FoldDelta(delta) ==
    IF delta > MAX_DELTA_VALUE THEN MAX_DELTA_VALUE - delta ELSE delta

Parse8Block(block, current_point) ==
    LET char_code_x == [i \in 0..3 |-> ParseChar(block[i + 1])]
        char_code_y == [i \in 0..3 |-> ParseChar(block[4 + i + 1])]
    IN  IF \E i \in 0..3 : char_code_x[i] < 0 \/ char_code_y[i] < 0
        THEN [ok |-> FALSE, current_point |-> current_point]
        ELSE [ok |-> TRUE,
              current_point |->
                  [X |-> current_point.X + FoldDelta(ShiftSum(char_code_x, 4)),
                   Y |-> current_point.Y + FoldDelta(ShiftSum(char_code_y, 4))]]

\* v / 100, kept exact as whole units and remaining hundredths
DivideBy100(v) == [Units |-> v \div 100, Hundredths |-> v % 100]

\* the loop of DecodeGeoDiff from position index on; ok is FALSE where the
\* source returns GeoDiff{} from inside the loop
RECURSIVE DecodeBlocks(_, _, _, _)
DecodeBlocks(geo_data, index, current_point, points) ==
    IF ~(index < Len(geo_data))
    THEN [ok |-> TRUE, points |-> points]
    ELSE LET c == geo_data[index + 1]
         IN  IF c = Symbol("=") \/ c = Symbol("-")
             THEN IF Len(geo_data) - index < 13
                  THEN [ok |-> FALSE, points |-> <<>>]
                  ELSE LET block == SubSeq(geo_data, index + 1, index + 13)
                           parsed == Parse13Block(block, current_point)
                       IN  IF ~parsed.ok
                           THEN [ok |-> FALSE, points |-> <<>>]
                           ELSE DecodeBlocks(geo_data, index + 13,
                                             parsed.current_point,
                                             Append(points, parsed.current_point))
             ELSE IF c = Symbol(";")
             THEN DecodeBlocks(geo_data, index + 1, MercatorZero, points)
             ELSE IF Len(geo_data) - index < 8
                  THEN [ok |-> FALSE, points |-> <<>>]
                  ELSE LET block == SubSeq(geo_data, index + 1, index + 8)
                           parsed == Parse8Block(block, current_point)
                       IN  IF ~parsed.ok
                           THEN [ok |-> FALSE, points |-> <<>>]
                           ELSE DecodeBlocks(geo_data, index + 8,
                                             parsed.current_point,
                                             Append(points, parsed.current_point))

DecodeGeoDiff(e) ==
    IF Len(e) = 0
    THEN GeoDiffZero
    ELSE LET geo_type == GetGeoType(e[1])
             geo_data == Tail(e)
             walked == DecodeBlocks(geo_data, 0, MercatorZero, <<>>)
         IN  IF ~walked.ok
             THEN GeoDiffZero
             ELSE [Type |-> geo_type,
                   Points |-> [i \in 1..Len(walked.points) |->
                                  [X |-> DivideBy100(walked.points[i].X),
                                   Y |-> DivideBy100(walked.points[i].Y)]]]

\* ------------------------------------------ inputs of the geometry codec
MaxBlocks == 2

\* v as n alphabet characters, least significant first
Digits(v, n) == [i \in 1..n |-> Alphabet[((v \div (64 ^ (i - 1))) % 64) + 1]]

AbsoluteBlock(lead, x, y) == <<lead>> \o Digits(x, 6) \o Digits(y, 6)
DeltaBlock(delta_x, delta_y) == Digits(delta_x, 4) \o Digits(delta_y, 4)
Separator == <<Symbol(";")>>

\* a byte outside the alphabet ("!") and a byte that is no kind selector ("X")
InvalidSymbol == 33
UnknownSelector == 88

\* block with its character number k (1-based) made invalid
Corrupted(block, k) == [block EXCEPT ![k] = InvalidSymbol]
\* block without its last character
Truncated(block) == SubSeq(block, 1, Len(block) - 1)

\* <<leading character, x, y>> of the absolute blocks of the inputs
AbsoluteValues == {<<Symbol("="), 1234, 5678>>, <<Symbol("-"), 100, 0>>}
AbsoluteBlocks == {AbsoluteBlock(a[1], a[2], a[3]) : a \in AbsoluteValues}
\* <<delta_x, delta_y>> of the delta blocks of the inputs, as encoded
DeltaValues == {<<1, MAX_DELTA_VALUE>>, <<MAX_DELTA_VALUE + 1, 16777215>>}
DeltaBlocks == {DeltaBlock(d[1], d[2]) : d \in DeltaValues}

BlockPool ==
    AbsoluteBlocks \cup DeltaBlocks \cup
    { Separator,
      Truncated(AbsoluteBlock(Symbol("="), 1234, 5678)),
      Truncated(DeltaBlock(1, 2)),
      Corrupted(AbsoluteBlock(Symbol("="), 1234, 5678), 13),
      Corrupted(DeltaBlock(1, 2), 3) }

RECURSIVE Flatten(_)
Flatten(blocks) ==
    IF blocks = <<>> THEN <<>> ELSE Head(blocks) \o Flatten(Tail(blocks))

BlockLists == UNION {[1..n -> BlockPool] : n \in 0..MaxBlocks}
Selectors == {Symbol("."), Symbol("-"), Symbol("*"), UnknownSelector}
Segments ==
    {<<>>} \cup {<<s>> \o Flatten(blocks) : s \in Selectors, blocks \in BlockLists}

\* ------------------------------------------- one call of DecodeGeoDiff
CallDecodeGeoDiff ==
    /\ pc = "DecodeGeoDiff"
    /\ decoded = {}
    /\ decoded' = {DecodeGeoDiff(elem)}
    /\ UNCHANGED <<pc, elem, encoded, elems, elem_idx, result,
                   nonGeoVars>>

GeoInit ==
    /\ pc = "DecodeGeoDiff"
    /\ elem \in Segments
    /\ decoded = {}
    /\ encoded = <<>>
    /\ elems = <<>>
    /\ elem_idx = 0
    /\ result = <<>>
    /\ NonGeoUnused

GeoNext == CallDecodeGeoDiff

GeoSpec == GeoInit /\ [][GeoNext]_vars

\* --------------------------------------------------------- claims C11..
\* geo_data has, at some block position of the walk from index on, fewer
\* characters left than the block there needs, or a symbol outside the alphabet
RECURSIVE Malformed(_, _)
Malformed(geo_data, index) ==
    IF index >= Len(geo_data)
    THEN FALSE
    ELSE LET c == geo_data[index + 1]
             need == IF c \in {Symbol("="), Symbol("-")} THEN 13
                     ELSE IF c = Symbol(";") THEN 1 ELSE 8
             first == IF need = 13 THEN index + 2 ELSE index + 1
         IN  \/ Len(geo_data) - index < need
             \/ /\ need # 1
                /\ \E k \in first..(index + need) :
                      \A a \in 1..64 : Alphabet[a] # geo_data[k]
             \/ Malformed(geo_data, index + need)

KindSelectors == {Symbol("."), Symbol("-"), Symbol("*")}

\* C11: a segment whose first character is none of the three kind selectors
\* is rejected: DecodeGeoDiff returns no decoded points for it, whatever
\* blocks follow.
C11_UnknownKindRejected ==
    \A d \in decoded :
        (pc = "DecodeGeoDiff" /\ elem # <<>> /\ elem[1] \notin KindSelectors)
            => d.Points = <<>>

\* C12: a segment with a truncated block or an invalid symbol decodes to the
\* empty point sequence (the value GeoDiff{}), whatever was decoded before.
C12_MalformedYieldsEmpty ==
    \A d \in decoded :
        (pc = "DecodeGeoDiff" /\ elem # <<>> /\ Malformed(Tail(elem), 0))
            => d = GeoDiffZero

\* a valid absolute block followed by a truncated delta block: nothing is kept
C12_Witness ==
    /\ pc = "DecodeGeoDiff"
    /\ elem = <<Symbol(".")>> \o AbsoluteBlock(Symbol("="), 1234, 5678)
                \o Truncated(DeltaBlock(1, 2))
    /\ decoded = {GeoDiffZero}

\* the value of a stored coordinate, in hundredths
InHundredths(q) == 100 * q.Units + q.Hundredths

\* segments of one absolute block a followed by one delta block dv
AbsoluteThenDelta(a, dv) ==
    {<<s>> \o AbsoluteBlock(a[1], a[2], a[3]) \o DeltaBlock(dv[1], dv[2]) :
        s \in Selectors}

\* the second point of d is the absolute point a moved by <<delta_x, delta_y>>
MovedBy(d, a, delta_x, delta_y) ==
    /\ Len(d.Points) = 2
    /\ InHundredths(d.Points[2].X) = a[2] + delta_x
    /\ InHundredths(d.Points[2].Y) = a[3] + delta_y

\* C13 as stated: a delta of exactly 2^23 folds to 0 and a delta of 2^23 + 1
\* folds to 2^23 - 1 before it is added to the running point.
C13_FoldsToZeroAtBound ==
    \A d \in decoded : \A a \in AbsoluteValues :
        /\ elem \in AbsoluteThenDelta(a, <<1, MAX_DELTA_VALUE>>)
              => MovedBy(d, a, 1, 0)
        /\ elem \in AbsoluteThenDelta(a, <<MAX_DELTA_VALUE + 1, 16777215>>)
              => InHundredths(d.Points[2].X) = a[2] + (MAX_DELTA_VALUE - 1)

\* C13 (amended): a delta of exactly 2^23 is not folded and is added as
\* 2^23; a delta above 2^23 is replaced by 2^23 - delta, so 2^23 + 1 is
\* added as -1 and 2^24 - 1 as -(2^23 - 1).
C13_FoldsAboveBound ==
    \A d \in decoded : \A a \in AbsoluteValues :
        /\ elem \in AbsoluteThenDelta(a, <<1, MAX_DELTA_VALUE>>)
              => MovedBy(d, a, 1, MAX_DELTA_VALUE)
        /\ elem \in AbsoluteThenDelta(a, <<MAX_DELTA_VALUE + 1, 16777215>>)
              => MovedBy(d, a, -1, -(MAX_DELTA_VALUE - 1))

\* the point (1234, 5678) moved by the deltas 1 and 2^23
C13_Witness ==
    /\ pc = "DecodeGeoDiff"
    /\ elem \in AbsoluteThenDelta(<<Symbol("="), 1234, 5678>>, <<1, MAX_DELTA_VALUE>>)
    /\ \E d \in decoded :
          /\ Len(d.Points) = 2
          /\ d.Points[2].X = [Units |-> 12, Hundredths |-> 35]
          /\ d.Points[2].Y = [Units |-> 83942, Hundredths |-> 86]

\* ------------------------------------ one call of DecodeCombinedGeoDiff
MaxElems == 3

\* strings.Split(s, sep) for a one-byte separator
RECURSIVE Split(_, _)
Split(s, sep) ==
    IF \A k \in 1..Len(s) : s[k] # sep
    THEN <<s>>
    ELSE LET k == CHOOSE j \in 1..Len(s) :
                      s[j] = sep /\ \A i \in 1..(j - 1) : s[i] # sep
         IN  <<SubSeq(s, 1, k - 1)>> \o Split(SubSeq(s, k + 1, Len(s)), sep)

\* the test of the range loop with every decoded value taken
KeepDecoded_Always(d) == TRUE

KeepDecoded(d) == Len(d.Points) # 0

\* segments of the composite inputs: empty, well formed with and without
\* points, truncated, corrupted, and of an unknown kind
SegmentPool ==
    { <<>>,
      <<Symbol(".")>> \o AbsoluteBlock(Symbol("="), 1234, 5678),
      <<Symbol("-")>> \o AbsoluteBlock(Symbol("-"), 100, 0) \o DeltaBlock(1, 2),
      <<Symbol("*")>> \o Separator,
      <<Symbol("*")>> \o AbsoluteBlock(Symbol("="), 1234, 5678)
          \o Truncated(DeltaBlock(1, 2)),
      <<Symbol("-")>> \o Corrupted(DeltaBlock(1, 2), 3),
      <<UnknownSelector>> \o AbsoluteBlock(Symbol("="), 100, 0) }

\* segs joined by "|"
RECURSIVE Join(_)
Join(segs) ==
    IF Len(segs) = 1
    THEN segs[1]
    ELSE segs[1] \o <<Symbol("|")>> \o Join(Tail(segs))

SegmentLists == UNION {[1..n -> SegmentPool] : n \in 1..MaxElems}
CombinedInputs == {Join(segs) : segs \in SegmentLists}

SplitEncoded ==
    /\ pc = "DecodeCombinedGeoDiff"
    /\ elems' = Split(encoded, Symbol("|"))
    /\ elem_idx' = 0
    /\ result' = <<>>
    /\ pc' = "range"
    /\ UNCHANGED <<elem, decoded, encoded,
                   nonGeoVars>>

\* one iteration of the range loop over elems
DecodeElem ==
    /\ pc = "range"
    /\ elem_idx < Len(elems)
    /\ elem' = elems[elem_idx + 1]
    /\ decoded' = {DecodeGeoDiff(elem')}
    /\ result' = IF KeepDecoded(DecodeGeoDiff(elem'))
                 THEN Append(result, DecodeGeoDiff(elem'))
                 ELSE result
    /\ elem_idx' = elem_idx + 1
    /\ UNCHANGED <<pc, encoded, elems,
                   nonGeoVars>>

ReturnResult ==
    /\ pc = "range"
    /\ elem_idx = Len(elems)
    /\ pc' = "returned"
    /\ UNCHANGED <<geoVars, nonGeoVars>>

CombinedInit ==
    /\ pc = "DecodeCombinedGeoDiff"
    /\ encoded \in CombinedInputs
    /\ elem = <<>>
    /\ decoded = {}
    /\ elems = <<>>
    /\ elem_idx = 0
    /\ result = <<>>
    /\ NonGeoUnused

CombinedNext ==
    \/ SplitEncoded
    \/ DecodeElem
    \/ ReturnResult

CombinedSpec == CombinedInit /\ [][CombinedNext]_vars

\* ----------------------------------------------------------- claim C14
\* seg is well formed and holds at least one absolute or delta block
EmitsPoints(seg) ==
    /\ seg # <<>>
    /\ ~Malformed(Tail(seg), 0)
    /\ \E k \in 2..Len(seg) : seg[k] # Symbol(";")

\* what each segment that emits points decodes to on its own, in order
RECURSIVE KeptOf(_)
KeptOf(segs) ==
    IF segs = <<>>
    THEN <<>>
    ELSE (IF EmitsPoints(Head(segs)) THEN <<DecodeGeoDiff(Head(segs))>> ELSE <<>>)
         \o KeptOf(Tail(segs))

\* C14: the result of DecodeCombinedGeoDiff on segments joined by "|" is, in
\* input order, what each segment decodes to on its own, without the
\* segments that are empty, truncated, corrupted or without a point; every
\* entry of the result has at least one point.
C14_NonEmptySegmentsInOrder ==
    pc \in {"range", "returned"} =>
        \* elems are the segments of the input
        /\ encoded = Join(elems)
        /\ \A i \in 1..Len(elems) : \A k \in 1..Len(elems[i]) :
              elems[i][k] # Symbol("|")
        /\ result = KeptOf(SubSeq(elems, 1, elem_idx))
        /\ \A i \in 1..Len(result) : Len(result[i].Points) > 0
        /\ pc = "returned" => elem_idx = Len(elems)

\* a truncated segment between two good ones: the two good ones are returned
C14_Witness ==
    /\ pc = "returned"
    /\ Len(elems) = 3
    /\ elems[2] # <<>>
    /\ Malformed(Tail(elems[2]), 0)
    /\ Len(result) = 2
    /\ result[1] = DecodeGeoDiff(elems[1])
    /\ result[2] = DecodeGeoDiff(elems[3])
    /\ result[1] # result[2]

\* ================================================= coordinate transform
\* A float64 is modelled by an enclosure <<lo, hi>>: two whole numbers of
\* millionths between which the value lies (lo = hi for a value read from
\* the input). A Coordinate is [Lat |-> <<lo, hi>>, Lng |-> <<lo, hi>>] in
\* millionths of a degree. Every operation rounds lo down and hi up, and
\* every intermediate value stays below 2^31.
MaxApplications == 2

Ival == Int \X Int

\* the least and the greatest of a set of numbers
Least[s \in SUBSET Int] == CHOOSE v \in s : \A w \in s : v <= w
Greatest[s \in SUBSET Int] == CHOOSE v \in s : \A w \in s : v >= w

\* math.Abs of a number
Abs(v) == IF v < 0 THEN 0 - v ELSE v

\* v / k rounded up, k > 0
CeilDiv[v \in Int, k \in Int] == 0 - ((0 - v) \div k)

\* a * b for a, b >= 0 is MulHigh * 10^6 + low digits; MulLow is the part
\* of the low digits above 10^3 and MulExactPos says no low digit is set
MulLow[a \in Int, b \in Int] ==
    (a \div 1000) * (b % 1000) + (a % 1000) * (b \div 1000)
        + ((a % 1000) * (b % 1000)) \div 1000

\* a * b / 10^6 rounded down, a, b >= 0
MulFloorPos[a \in Int, b \in Int] ==
    (a \div 1000) * (b \div 1000) + MulLow[a, b] \div 1000

MulExactPos[a \in Int, b \in Int] ==
    ((a % 1000) * (b % 1000)) % 1000 = 0 /\ MulLow[a, b] % 1000 = 0

\* a * b / 10^6 rounded up, a, b >= 0
MulCeilPos[a \in Int, b \in Int] ==
    IF MulExactPos[a, b] THEN MulFloorPos[a, b] ELSE MulFloorPos[a, b] + 1

\* a * b / 10^6 rounded down and rounded up
MulFloor[a \in Int, b \in Int] ==
    IF (a >= 0) = (b >= 0)
    THEN MulFloorPos[Abs(a), Abs(b)]
    ELSE 0 - MulCeilPos[Abs(a), Abs(b)]

MulCeil[a \in Int, b \in Int] ==
    IF (a >= 0) = (b >= 0)
    THEN MulCeilPos[Abs(a), Abs(b)]
    ELSE 0 - MulFloorPos[Abs(a), Abs(b)]

\* float64 product, sum and difference, in millionths
IMul[a \in Ival, b \in Ival] ==
    <<Least[{MulFloor[a[1], b[1]], MulFloor[a[1], b[2]],
             MulFloor[a[2], b[1]], MulFloor[a[2], b[2]]}],
      Greatest[{MulCeil[a[1], b[1]], MulCeil[a[1], b[2]],
                MulCeil[a[2], b[1]], MulCeil[a[2], b[2]]}]>>

IAdd[a \in Ival, b \in Ival] == <<a[1] + b[1], a[2] + b[2]>>

ISub[a \in Ival, b \in Ival] == <<a[1] - b[2], a[2] - b[1]>>

\* float64 product with a whole number k >= 0 and quotient by one, k > 0
IScale[k \in Int, a \in Ival] == <<k * a[1], k * a[2]>>

IDivInt[a \in Ival, k \in Int] == <<a[1] \div k, CeilDiv[a[2], k]>>

\* math.Abs
IAbs[a \in Ival] ==
    IF a[1] >= 0
    THEN a
    ELSE IF a[2] <= 0
    THEN <<0 - a[2], 0 - a[1]>>
    ELSE <<0, Greatest[{0 - a[1], a[2]}]>>

\* r * r <= v * 10^6
SqLe[r \in Int, v \in Int] ==
    \/ MulFloorPos[r, r] < v
    \/ MulFloorPos[r, r] = v /\ MulExactPos[r, r]

\* the largest root between lo and hi whose square is at most v
SqrtBetween[v \in Int, lo \in Int, hi \in Int] ==
    IF lo >= hi
    THEN lo
    ELSE IF SqLe[(lo + hi + 1) \div 2, v]
    THEN SqrtBetween[v, (lo + hi + 1) \div 2, hi]
    ELSE SqrtBetween[v, lo, (lo + hi + 1) \div 2 - 1]

\* the root of 0 <= v <= 2116 rounded down, and the same rounded up
SqrtFloor[v \in Int] == SqrtBetween[v, 0, 46000000]

SqrtUp[v \in Int, r \in Int] ==
    IF MulFloorPos[r, r] = v /\ MulExactPos[r, r] THEN r ELSE r + 1

\* math.Sqrt
Sqrt[a \in Ival] == <<SqrtFloor[a[1]], SqrtUp[a[2], SqrtFloor[a[2]]]>>

\* math.Pi
Pi == <<3141592, 3141593>>

\* the term of power k of the sine series from the term of power k - 2
SinTerm[t2 \in Ival, term \in Ival, k \in Int] ==
    <<MulFloorPos[term[1], t2[1]] \div ((k - 1) * k),
      CeilDiv[MulCeilPos[term[2], t2[2]], (k - 1) * k]>>

\* the sine series from the term of power k on, signs alternating; what
\* follows the term of power 13 is between 0 and one millionth
SinSeries[t2 \in Ival, term \in Ival, k \in Int] ==
    IF k > 13
    THEN <<0, 1>>
    ELSE ISub[SinTerm[t2, term, k], SinSeries[t2, SinTerm[t2, term, k], k + 2]]

\* math.Sin of t millionths of a radian, 0 <= t <= Pi / 2
SinPoint[t \in Int] ==
    ISub[<<t, t>>, SinSeries[<<MulFloorPos[t, t], MulCeilPos[t, t]>>, <<t, t>>, 3]]

\* math.Sin of an angle between t[1] and t[2], 0 <= t[1] and the angle at
\* most Pi / 2, where the sine grows with the angle
SinQuarter[t \in Ival] ==
    <<Greatest[{0, SinPoint[t[1]][1]}],
      IF t[2] > 1570796 THEN 1000000 ELSE Least[{1000000, SinPoint[t[2]][2]}]>>

\* the sine of a quarter with its sign, widened by w on both sides
SinSigned[s \in Ival, negative \in BOOLEAN, w \in Int] ==
    IF negative
    THEN <<Greatest[{0 - 1000000, 0 - s[2] - w}], Least[{1000000, 0 - s[1] + w}]>>
    ELSE <<Greatest[{0 - 1000000, s[1] - w}], Least[{1000000, s[2] + w}]>>

\* math.Sin(num / den * math.Pi): the sine at num[1], its angle brought
\* into the first quarter of the period, widened by the most the sine can
\* change between num[1] and num[2]
SinPi[num \in Ival, den \in Int] ==
    LET half == den * 1000000
        m == num[1] % (2 * half)
        n == IF m >= half THEN m - half ELSE m
        q == IF n > half \div 2 THEN half - n ELSE n
    IN  SinSigned[SinQuarter[<<MulFloorPos[q, Pi[1]] \div den,
                               CeilDiv[MulCeilPos[q, Pi[2]], den]>>],
                  m >= half,
                  IF num[2] > num[1] THEN ((num[2] - num[1]) * 4) \div den + 1 ELSE 0]

\* (a * sin1 + b * sin2) * 2.0 / 3.0
SinPair[a \in Int, sin1 \in Ival, b \in Int, sin2 \in Ival] ==
    IDivInt[IScale[2, IAdd[IScale[a, sin1], IScale[b, sin2]]], 3]

TransformLat[x \in Ival, y \in Ival] ==
    IAdd[IAdd[IAdd[<<0 - 100000000, 0 - 100000000>>, IAdd[IScale[2, x], IScale[3, y]]],
              IAdd[IDivInt[IMul[y, y], 5],
                   IAdd[IDivInt[IMul[x, y], 10], IDivInt[Sqrt[IAbs[x]], 5]]]],
         IAdd[SinPair[20, SinPi[IScale[6, x], 1], 20, SinPi[IScale[2, x], 1]],
              IAdd[SinPair[20, SinPi[y, 1], 40, SinPi[y, 3]],
                   SinPair[160, SinPi[y, 12], 320, SinPi[y, 30]]]]]

TransformLon[x \in Ival, y \in Ival] ==
    IAdd[IAdd[IAdd[<<300000000, 300000000>>, IAdd[x, IScale[2, y]]],
              IAdd[IDivInt[IMul[x, x], 10],
                   IAdd[IDivInt[IMul[x, y], 10], IDivInt[Sqrt[IAbs[x]], 10]]]],
         IAdd[SinPair[20, SinPi[IScale[6, x], 1], 20, SinPi[IScale[2, x], 1]],
              IAdd[SinPair[20, SinPi[x, 1], 40, SinPi[x, 3]],
                   SinPair[150, SinPi[x, 12], 300, SinPi[x, 30]]]]]

\* offset, in units of 10^-9
offset == <<6693421, 6693422>>
\* axis * (1 - offset) * math.Pi / 180.0 and axis * math.Pi / 180.0, in
\* thousandths
DegreeLat == <<110576254, 110576255>>
DegreeLng == <<111321375, 111321376>>

\* (q + r / d) * 10^n rounded down, with what is left of r, 0 <= r < d
DivDigits[q \in Int, r \in Int, d \in Int, n \in Int] ==
    IF n = 0
    THEN <<q, r>>
    ELSE DivDigits[q * 10 + (r * 10) \div d, (r * 10) % d, d, n - 1]

\* q * 1000 / d rounded down and rounded up, d > 0
QuotFloor[q \in Int, d \in Int] ==
    IF q >= 0
    THEN DivDigits[q \div d, q % d, d, 3][1]
    ELSE 0 - (DivDigits[(0 - q) \div d, (0 - q) % d, d, 3][1]
                 + IF DivDigits[(0 - q) \div d, (0 - q) % d, d, 3][2] = 0 THEN 0 ELSE 1)

QuotCeil[q \in Int, d \in Int] == 0 - QuotFloor[0 - q, d]

\* float64 quotient q / d for d > 0 in thousandths
IDiv[q \in Ival, d \in Ival] ==
    <<QuotFloor[q[1], IF q[1] >= 0 THEN d[2] ELSE d[1]],
      QuotCeil[q[2], IF q[2] >= 0 THEN d[1] ELSE d[2]]>>

\* magic = 1 - offset * magic * magic for magic = math.Sin(rad_lat)
MagicOf[sin_lat \in Ival] ==
    ISub[<<1000000, 1000000>>, IDivInt[IMul[IMul[sin_lat, sin_lat], offset], 1000]]

Magic[lat \in Ival] == MagicOf[SinPi[lat, 180]]

\* math.Cos(rad_lat)
CosLat[lat \in Ival] == SinPi[<<90000000 - lat[2], 90000000 - lat[1]>>, 180]

\* <<d_lng, d_lat>> in millionths of a degree
GCJ02Delta[lng \in Ival, lat \in Ival] ==
    <<IDiv[IMul[TransformLon[ISub[lng, <<105000000, 105000000>>],
                             ISub[lat, <<35000000, 35000000>>]],
                Sqrt[Magic[lat]]],
           IMul[DegreeLng, CosLat[lat]]],
      IDiv[IMul[IMul[TransformLat[ISub[lng, <<105000000, 105000000>>],
                                  ISub[lat, <<35000000, 35000000>>]],
                     Magic[lat]],
                Sqrt[Magic[lat]]],
           DegreeLat]>>

\* the test without its latitude half
OutOfChina_LngOnly(lng, lat) == lng < 72004000 \/ lng > 137834700

OutOfChina(lng, lat) ==
    IF lng < 72004000 \/ lng > 137834700
    THEN TRUE
    ELSE IF lat < 829300 \/ lat > 55827100
    THEN TRUE
    ELSE FALSE

\* the values OutOfChina can have for a coordinate within c
OutOfChinaWithin(c) ==
    {OutOfChina(lng, lat) : lng \in c.Lng[1]..c.Lng[2], lat \in c.Lat[1]..c.Lat[2]}

\* d, or d and no shift at all where the test can go either way
ShiftWithin[d \in Ival \X Ival, always \in BOOLEAN] ==
    IF always
    THEN d
    ELSE <<<<Least[{0, d[1][1]}], Greatest[{0, d[1][2]}]>>,
           <<Least[{0, d[2][1]}], Greatest[{0, d[2][2]}]>>>>

\* lng = lng - d_lng; lat = lat - d_lat
ShiftedBack[lng \in Ival, lat \in Ival, d \in Ival \X Ival] ==
    [Lat |-> ISub[lat, d[2]], Lng |-> ISub[lng, d[1]]]

\* lng = lng + d_lng; lat = lat + d_lat
ShiftedOn[lng \in Ival, lat \in Ival, d \in Ival \X Ival] ==
    [Lat |-> IAdd[lat, d[2]], Lng |-> IAdd[lng, d[1]]]

GCJ02ToWGS84(c) ==
    IF OutOfChinaWithin(c) # {TRUE}
    THEN ShiftedBack[c.Lng, c.Lat,
                     ShiftWithin[GCJ02Delta[c.Lng, c.Lat], OutOfChinaWithin(c) = {FALSE}]]
    ELSE [Lat |-> c.Lat, Lng |-> c.Lng]

GCJ02FromWGS84(c) ==
    IF OutOfChinaWithin(c) # {TRUE}
    THEN ShiftedOn[c.Lng, c.Lat,
                   ShiftWithin[GCJ02Delta[c.Lng, c.Lat], OutOfChinaWithin(c) = {FALSE}]]
    ELSE [Lat |-> c.Lat, Lng |-> c.Lng]

\* longitudes and latitudes on both sides of each bound, and well inside
LngInputs == {72003999, 72004000, 105000000, 137834700, 137834701}
LatInputs == {829299, 829300, 35000000, 55827100, 55827101}

CallGCJ02ToWGS84 ==
    /\ pc = "transform"
    /\ applied < MaxApplications
    /\ coord' = GCJ02ToWGS84(coord)
    /\ applied' = applied + 1
    /\ last_call' = "GCJ02ToWGS84"
    /\ UNCHANGED <<pc, coord_in, nonTransformVars>>

CallGCJ02FromWGS84 ==
    /\ pc = "transform"
    /\ applied < MaxApplications
    /\ coord' = GCJ02FromWGS84(coord)
    /\ applied' = applied + 1
    /\ last_call' = "GCJ02FromWGS84"
    /\ UNCHANGED <<pc, coord_in, nonTransformVars>>

TransformInit ==
    /\ pc = "transform"
    /\ coord \in {[Lat |-> <<lat, lat>>, Lng |-> <<lng, lng>>] :
                      lat \in LatInputs, lng \in LngInputs}
    /\ coord_in = coord
    /\ applied = 0
    /\ last_call = "none"
    /\ NonTransformUnused

TransformNext ==
    \/ CallGCJ02ToWGS84
    \/ CallGCJ02FromWGS84

TransformSpec == TransformInit /\ [][TransformNext]_vars

\* ----------------------------------------------------------- claim C15
\* C15: a coordinate with longitude below 72.004 or above 137.8347, or with
\* latitude below 0.8293 or above 55.8271, is returned unchanged by
\* GCJ02ToWGS84 and by GCJ02FromWGS84, however often and in whatever order
\* they are applied.
C15_OutsideUnchanged ==
    (pc = "transform" /\
     (\/ coord_in.Lng[2] < 72004000 \/ coord_in.Lng[1] > 137834700
      \/ coord_in.Lat[2] < 829300 \/ coord_in.Lat[1] > 55827100))
        => coord = coord_in

\* both conversions applied to a coordinate whose latitude alone is outside
C15_Witness ==
    /\ pc = "transform"
    /\ applied = 2
    /\ last_call = "GCJ02FromWGS84"
    /\ coord_in = [Lat |-> <<55827101, 55827101>>, Lng |-> <<105000000, 105000000>>]
    /\ coord = coord_in

\* ======================================== primary table (uno.csv) loop
\* Of a uno.csv record the model keeps field 0 (Code) and field 1 (the type
\* tag); of a station it keeps Code and Index. Every record has the fields
\* the loop reads.
MaxUnoRecords == 3

UnoTags == {"MS", "ML", "WL", "MW", "WW", "XX"}
UnoCodes == {"a", "b"}
UnoRecords == [Code : UnoCodes, Tag : UnoTags]
UnoTables == UNION {[1..n -> UnoRecords] : n \in 1..MaxUnoRecords}

\* station_index counted up for every record
StationIndexAfter_EveryRecord(uno_record, index) == index + 1

\* station_index after the record: station_index++ is inside the MS branch
StationIndexAfter(uno_record, index) ==
    IF uno_record.Tag = "MS" THEN index + 1 ELSE index

BeginLoadCity ==
    /\ pc = "LoadCity"
    /\ uno_stations' = <<>>
    /\ uno_lines' = <<>>
    /\ uno_routes' = <<>>
    /\ stations_by_code' = {}
    /\ station_index' = 0
    /\ uno_idx' = 0
    /\ pc' = "uno"
    /\ UNCHANGED <<uno_csv_lines, load_no, first_stations, nonUnoVars>>

\* one iteration of the loop over uno_csv_lines
ReadUnoRecord ==
    /\ pc = "uno"
    /\ uno_idx < Len(uno_csv_lines)
    /\ LET uno_record == uno_csv_lines[uno_idx + 1]
           station == [Code |-> uno_record.Code, Index |-> station_index]
       IN  /\ IF uno_record.Tag = "MS"
              THEN /\ uno_stations' = Append(uno_stations, station)
                   /\ stations_by_code' = MapPut(stations_by_code, station.Code, station)
              ELSE UNCHANGED <<uno_stations, stations_by_code>>
           /\ station_index' = StationIndexAfter(uno_record, station_index)
           /\ uno_lines' = IF uno_record.Tag = "ML" \/ uno_record.Tag = "WL"
                           THEN Append(uno_lines, uno_record.Code)
                           ELSE uno_lines
           /\ uno_routes' = IF uno_record.Tag = "MW" \/ uno_record.Tag = "WW"
                            THEN Append(uno_routes, uno_record.Code)
                            ELSE uno_routes
    /\ uno_idx' = uno_idx + 1
    /\ UNCHANGED <<pc, uno_csv_lines, load_no, first_stations, nonUnoVars>>

\* the city is returned with Stations: stations
ReturnCity ==
    /\ pc = "uno"
    /\ uno_idx = Len(uno_csv_lines)
    /\ pc' = "loaded"
    /\ load_no' = load_no + 1
    /\ first_stations' = IF load_no = 0 THEN uno_stations ELSE first_stations
    /\ UNCHANGED <<uno_csv_lines, uno_idx, station_index, uno_stations, uno_lines,
                   uno_routes, stations_by_code, nonUnoVars>>

\* the same bundle is loaded once more
LoadAgain ==
    /\ pc = "loaded"
    /\ load_no < 2
    /\ pc' = "LoadCity"
    /\ UNCHANGED <<unoVars, nonUnoVars>>

UnoInit ==
    /\ pc = "LoadCity"
    /\ uno_csv_lines \in UnoTables
    /\ uno_idx = 0
    /\ station_index = 0
    /\ uno_stations = <<>>
    /\ uno_lines = <<>>
    /\ uno_routes = <<>>
    /\ stations_by_code = {}
    /\ load_no = 0
    /\ first_stations = <<>>
    /\ NonUnoUnused

UnoNext ==
    \/ BeginLoadCity
    \/ ReadUnoRecord
    \/ ReturnCity
    \/ LoadAgain

UnoSpec == UnoInit /\ [][UnoNext]_vars

\* ----------------------------------------------------------- claim C16
IsStationRecord(uno_record) == uno_record.Tag = "MS"
\* the codes of the MS records among records, in file order
StationCodesOf(records) ==
    LET ms == SelectSeq(records, IsStationRecord)
    IN  [i \in 1..Len(ms) |-> ms[i].Code]

\* C16: the station at position i of the station list has Index i (0-based),
\* the stations are the MS records in file order whatever records lie
\* between them, and a second load of the same bundle gives every station
\* the index the first load gave it.
C16_StationIndexIsPosition ==
    pc \in {"uno", "loaded"} =>
        /\ \A i \in 1..Len(uno_stations) : uno_stations[i].Index = i - 1
        /\ [i \in 1..Len(uno_stations) |-> uno_stations[i].Code]
               = StationCodesOf(SubSeq(uno_csv_lines, 1, uno_idx))
        /\ (pc = "loaded" /\ load_no = 2) => uno_stations = first_stations

\* two stations with a line record between them, loaded twice
C16_Witness ==
    /\ pc = "loaded"
    /\ load_no = 2
    /\ uno_csv_lines = << [Code |-> "a", Tag |-> "MS"], [Code |-> "a", Tag |-> "ML"],
                          [Code |-> "b", Tag |-> "MS"] >>
    /\ uno_stations = << [Code |-> "a", Index |-> 0], [Code |-> "b", Index |-> 1] >>

\* ============================ server LoadCity and the tables of LoadCity
\* An archive is the set of its table files; names_matrix tells whether a
\* fare record names a fare-matrix table ("fare_matrix" stands for the named
\* file). Tables that are present are taken to parse without a crash; the
\* route loop is modelled apart.
MaxCalls == 2

\* the tables LoadCity opens with an error return, in the order it opens them
RequiredTables ==
    << "uno.csv", "line.csv", "way.csv", "fare.csv", "fare_matrix", "holiday.csv",
       "schedule.csv", "wayschedule.csv", "path_latlng.csv", "path_rail.csv" >>
AllFiles == {RequiredTables[i] : i \in 1..Len(RequiredTables)}

NoZip == [files |-> {}, names_matrix |-> FALSE]
Archives ==
    {[files |-> AllFiles \ missing, names_matrix |-> TRUE] :
        missing \in {{}} \cup {{t} : t \in AllFiles}}
    \cup {[files |-> AllFiles \ {"fare_matrix"}, names_matrix |-> FALSE]}

CityCodes == {"bj", "sh"}
RequestedCodes == CityCodes \cup {"xx"}

\* a file that is not found comes back as empty contents without an error
ReadFileFromZip_EmptyWhenAbsent(zip_reader, name) == [found |-> TRUE]

\* common.ReadFileFromZip: found is FALSE where it returns the error
\* "could not find file"
ReadFileFromZip(zip_reader, name) == [found |-> name \in zip_reader.files]

\* where LoadCity goes on after the table at pc
AfterTable(t) ==
    CASE t = "uno.csv" -> "line.csv"
      [] t = "line.csv" -> "way.csv"
      [] t = "way.csv" -> "fare.csv"
      [] t = "fare.csv" -> "fare_matrix"
      [] t = "fare_matrix" -> "holiday.csv"
      [] t = "holiday.csv" -> "schedule.csv"
      [] t = "schedule.csv" -> "wayschedule.csv"
      [] t = "wayschedule.csv" -> "timing"
      [] t = "path_latlng.csv" -> "path_rail.csv"
      [] t = "path_rail.csv" -> "return"

\* s.LoadCity(code) up to the lookup of the zip date
ServerLoadCity ==
    /\ pc = "idle"
    /\ calls < MaxCalls
    /\ calls' = calls + 1
    /\ \E c \in RequestedCodes :
          /\ code' = c
          /\ IF MapHas(ZipDateLookup, c)
             THEN /\ pc' = "download"
                  /\ err' = <<>>
             ELSE /\ pc' = "idle"
                  /\ err' = <<"has not been loaded", c>>
    /\ zip' = NoZip
    /\ zips_before' = CityZips
    /\ cities_before' = Cities
    /\ UNCHANGED <<ZipDateLookup, CityZips, Cities, nonServerVars>>

\* http.Get or io.ReadAll returns an error
DownloadFails ==
    /\ pc = "download"
    /\ err' = <<"download failed">>
    /\ pc' = "idle"
    /\ UNCHANGED <<ZipDateLookup, CityZips, Cities, code, zip, zips_before,
                   cities_before, calls, nonServerVars>>

\* the archive arrives and is kept: s.CityZips[code] = zip; LoadCity begins
DownloadZip ==
    /\ pc = "download"
    /\ \E z \in Archives :
          /\ zip' = z
          /\ CityZips' = MapPut(CityZips, code, z)
    /\ pc' = "uno.csv"
    /\ UNCHANGED <<ZipDateLookup, Cities, code, err, zips_before, cities_before,
                   calls, nonServerVars>>

\* LoadCity opens one of its tables; an absent one ends LoadCity and
\* s.LoadCity with the error
ReadRequiredTable ==
    /\ pc \in AllFiles \ {"fare_matrix"}
    /\ IF ReadFileFromZip(zip, pc).found
       THEN /\ pc' = AfterTable(pc)
            /\ err' = err
       ELSE /\ pc' = "idle"
            /\ err' = <<"could not open", pc>>
    /\ UNCHANGED <<ZipDateLookup, CityZips, Cities, code, zip, zips_before,
                   cities_before, calls, nonServerVars>>

\* the fare records: CSVToMatrixInt opens the table a record names
ReadFareMatrices ==
    /\ pc = "fare_matrix"
    /\ IF zip.names_matrix /\ ~ReadFileFromZip(zip, "fare_matrix").found
       THEN /\ pc' = "idle"
            /\ err' = <<"could not open", "fare_matrix">>
       ELSE /\ pc' = AfterTable(pc)
            /\ err' = err
    /\ UNCHANGED <<ZipDateLookup, CityZips, Cities, code, zip, zips_before,
                   cities_before, calls, nonServerVars>>

\* the route loop: an absent timing table is passed over
ReadTimingTables ==
    /\ pc = "timing"
    /\ pc' = "path_latlng.csv"
    /\ UNCHANGED <<serverVars, nonServerVars>>

\* LoadCity returns the city and the server adds it: s.Cities[code] = city
RegisterCity ==
    /\ pc = "return"
    /\ Cities' = MapPut(Cities, code, [built_from |-> zip])
    /\ pc' = "idle"
    /\ UNCHANGED <<ZipDateLookup, CityZips, code, zip, err, zips_before,
                   cities_before, calls, nonServerVars>>

ServerInit ==
    /\ pc = "idle"
    /\ ZipDateLookup = {<<c, "20240101">> : c \in CityCodes}
    /\ CityZips = {}
    /\ Cities = {}
    /\ code = ""
    /\ zip = NoZip
    /\ err = <<>>
    /\ zips_before = {}
    /\ cities_before = {}
    /\ calls = 0
    /\ NonServerUnused

ServerNext ==
    \/ ServerLoadCity
    \/ DownloadFails
    \/ DownloadZip
    \/ ReadRequiredTable
    \/ ReadFareMatrices
    \/ ReadTimingTables
    \/ RegisterCity

ServerSpec == ServerInit /\ [][ServerNext]_vars

\* ----------------------------------------------------- claims C17, C20
\* the call has returned
Returned == pc = "idle" /\ calls > 0

\* the required tables that archive z lacks
AbsentTables(z) ==
    {t \in AllFiles \ z.files : t # "fare_matrix" \/ z.names_matrix}

\* C17: a call whose archive lacks a required table (a fare-matrix table only
\* if a fare record names it) returns the error of the first such table in
\* the order LoadCity opens them, and s.Cities is as before the call.
C17_MissingTableIsAnError ==
    (Returned /\ zip # NoZip /\ AbsentTables(zip) # {}) =>
        /\ \E i \in 1..Len(RequiredTables) :
              /\ RequiredTables[i] \in AbsentTables(zip)
              /\ \A j \in 1..(i - 1) : RequiredTables[j] \notin AbsentTables(zip)
              /\ err = <<"could not open", RequiredTables[i]>>
        /\ Cities = cities_before

\* an archive without path_rail.csv: the last table opened is the absent one
C17_Witness ==
    /\ Returned
    /\ zip = [files |-> AllFiles \ {"path_rail.csv"}, names_matrix |-> TRUE]
    /\ err = <<"could not open", "path_rail.csv">>
    /\ ~MapHas(Cities, code)

\* C20: a call that returns an error leaves s.Cities and s.CityZips, the
\* entry of the city being loaded included, as they were before the call.
C20_FailedLoadChangesNothing ==
    (Returned /\ err # <<>>) =>
        /\ Cities = cities_before
        /\ CityZips = zips_before

\* ================================================ route loop of LoadCity
\* The loop over routes (lines 527-704) around Step A and Step B. A route
\* is [Stations, Schedules, has_timing, timing]: has_timing tells whether
\* the archive holds <route.Code>.csv, timing is that table's records.
MaxRoutes == 2

RoutePool ==
    { \* no timing table in the archive
      [Stations |-> <<0, 1>>, Schedules |-> <<1>>, has_timing |-> FALSE,
       timing |-> <<>>],
      \* fixed-count path, the second hop continues the trip
      [Stations |-> <<0, 1, 2>>, Schedules |-> <<1>>, has_timing |-> TRUE,
       timing |-> << <<0, 1>>, <<1, 1>> >>],
      \* fixed-count path, the second hop starts a trip
      [Stations |-> <<0, 1, 2>>, Schedules |-> <<1>>, has_timing |-> TRUE,
       timing |-> << <<0, 0>>, <<1, 0>> >>],
      \* boundary path
      [Stations |-> <<0, 1>>, Schedules |-> <<1>>, has_timing |-> TRUE,
       timing |-> << <<0, 1>>, <<1, 1>> >>],
      \* boundary path that leaves one cell for two hops
      [Stations |-> <<0, 1, 2>>, Schedules |-> <<1>>, has_timing |-> TRUE,
       timing |-> << <<0, 0>> >>] }
RouteLists == UNION {[1..n -> RoutePool] : n \in 1..MaxRoutes}

\* the loop left at the first route without a timing table
AfterMissingTable_Break(idx, n) == n

\* route_idx after a route without a timing table: continue
AfterMissingTable(idx, n) == idx + 1

\* ReadFileFromZip fails for the route's timing table: continue
SkipRoute ==
    /\ pc = "routes"
    /\ route_idx < Len(city_routes)
    /\ ~city_routes[route_idx + 1].has_timing
    /\ route_idx' = AfterMissingTable(route_idx, Len(city_routes))
    /\ UNCHANGED <<pc, city_routes, route_trips, visited, routeVars, stepAVars,
                   stepBVars, nonRoutesVars>>

\* the timing table is read; the locals of the loop body are declared
BeginRoute ==
    /\ pc = "routes"
    /\ route_idx < Len(city_routes)
    /\ city_routes[route_idx + 1].has_timing
    /\ Stations' = city_routes[route_idx + 1].Stations
    /\ Schedules' = city_routes[route_idx + 1].Schedules
    /\ schedule_csv_lines' = city_routes[route_idx + 1].timing
    /\ csv_idx' = 0
    /\ station_arrivals_departures' = <<>>
    /\ schedule_station_arrivals_departures' = <<>>
    /\ station_idx' = 0
    /\ last_depart_min' = 0
    /\ record_cell' = <<>>
    /\ sched_i' = 0
    /\ station_i' = 0
    /\ trips' = <<>>
    /\ trip_ended' = <<>>
    /\ arrival_trip_assigned' = {}
    /\ last_arrival_trip_assigned' = {}
    /\ pending' = {}
    /\ trips_by_schedule' = <<>>
    /\ Trips' = <<>>
    /\ pc' = "start"
    /\ UNCHANGED <<routesVars, nonRoutesVars>>

\* route.Trips = trips_by_schedule has been done (FinishRoute): next route
EndRoute ==
    /\ pc = "done"
    /\ route_trips' = [route_trips EXCEPT ![route_idx + 1] = Trips]
    /\ visited' = visited \cup {route_idx}
    /\ route_idx' = route_idx + 1
    /\ pc' = "routes"
    /\ UNCHANGED <<city_routes, routeVars, stepAVars, stepBVars, nonRoutesVars>>

EndRouteLoop ==
    /\ pc = "routes"
    /\ route_idx >= Len(city_routes)
    /\ pc' = "routes_done"
    /\ UNCHANGED <<routesVars, routeVars, stepAVars, stepBVars, nonRoutesVars>>

RoutesInit ==
    /\ pc = "routes"
    /\ city_routes \in RouteLists
    /\ route_idx = 0
    /\ route_trips = [i \in 1..Len(city_routes) |-> <<>>]
    /\ visited = {}
    /\ RouteUnused
    /\ NonRoutesUnused

RoutesNext ==
    \/ SkipRoute
    \/ BeginRoute
    \/ EndRoute
    \/ EndRouteLoop
    \/ ChoosePath
    \/ BoundaryRead
    \/ FixedRead
    \/ BeginSchedule
    \/ FinishRoute
    \/ HopPanic
    \/ BeginHop
    \/ EndSchedule
    \/ FirstHopTrip
    \/ ExtendTrip
    \/ StartNewTrip

RoutesSpec == RoutesInit /\ [][RoutesNext]_vars

\* ----------------------------------------------------------- claim C18
\* the loop stands before a route that has no timing table
BeforeMissing ==
    /\ pc = "routes"
    /\ route_idx < Len(city_routes)
    /\ ~city_routes[route_idx + 1].has_timing

\* Step A and Step B start from the declarations of the loop body and the
\* route's own stations, schedules and records
StartsFresh ==
    /\ Stations = city_routes[route_idx + 1].Stations
    /\ Schedules = city_routes[route_idx + 1].Schedules
    /\ schedule_csv_lines = city_routes[route_idx + 1].timing
    /\ stepAVars = <<0, <<>>, <<>>, 0, 0, <<>>>>
    /\ stepBVars = <<0, 0, <<>>, <<>>, {}, {}, {}, <<>>, <<>>>>

\* C18: a route without a timing table is passed over without an error and
\* without a change to any route's trips: the loop goes on with the next
\* route, which starts from the same state as if the route had not been
\* there; when the loop has ended the route has no trips and every route
\* that has a timing table has had its trips assigned.
C18_MissingTimingSkipped ==
    /\ [](pc = "start" => StartsFresh)
    /\ [](pc = "routes_done" =>
            \A i \in 1..Len(city_routes) :
                IF city_routes[i].has_timing
                THEN (i - 1) \in visited
                ELSE route_trips[i] = <<>> /\ (i - 1) \notin visited)
    /\ [][BeforeMissing =>
            /\ pc' = "routes"
            /\ route_idx' = route_idx + 1
            /\ UNCHANGED <<route_trips, visited, routeVars, stepAVars, stepBVars>>]_vars

\* a route without a timing table before a route with one: the second route
\* has its trip, the first has none
C18_Witness ==
    /\ pc = "routes_done"
    /\ Len(city_routes) = 2
    /\ ~city_routes[1].has_timing
    /\ city_routes[2].has_timing
    /\ route_trips[1] = <<>>
    /\ Len(route_trips[2]) = 1
    /\ Len(route_trips[2][1]) = 1

\* ============================================ parse of a timing record
\* Lines 563-566 (boundary path) and 601-604 (fixed-count path) parse one
\* line of the timing table the same way. Lines are short, so no number is
\* out of the range of int.
MaxLineLen == 3

Comma == 44
Plus == 43
Minus == 45
DigitBytes == 48..57
\* the bytes of "1", "2", "x", "," and "-"
LineBytes == {49, 50, 120, Comma, Minus}
RecordLines == UNION {[1..n -> LineBytes] : n \in 0..MaxLineLen}

RECURSIVE DecimalValue(_)
DecimalValue(digits) ==
    IF digits = <<>>
    THEN 0
    ELSE 10 * DecimalValue(SubSeq(digits, 1, Len(digits) - 1))
         + (digits[Len(digits)] - 48)

\* strconv.ParseInt(s, 10, 0): the value and whether err is nil; a syntax
\* error returns 0
ParseInt(s) ==
    LET signed == s # <<>> /\ s[1] \in {Plus, Minus}
        digits == IF signed THEN Tail(s) ELSE s
    IN  IF digits = <<>> \/ \E k \in 1..Len(digits) : digits[k] \notin DigitBytes
        THEN [value |-> 0, ok |-> FALSE]
        ELSE [value |-> IF signed /\ s[1] = Minus
                        THEN 0 - DecimalValue(digits)
                        ELSE DecimalValue(digits),
              ok |-> TRUE]

\* the record is split and its fields 0 and 1 are parsed; schedule_record[1]
\* of a record without a comma is an index out of range
ReadRecord ==
    /\ pc = "record"
    /\ schedule_record' = Split(schedule_record_line, Comma)
    /\ depart_parsed' = ParseInt(schedule_record'[1]).value
    /\ IF Len(schedule_record') < 2
       THEN /\ pc' = "panic"
            /\ arrive_parsed' = arrive_parsed
       ELSE /\ pc' = "parsed"
            /\ arrive_parsed' = ParseInt(schedule_record'[2]).value
    /\ UNCHANGED <<schedule_record_line, nonParseVars>>

ParseInit ==
    /\ pc = "record"
    /\ schedule_record_line \in RecordLines
    /\ schedule_record = <<>>
    /\ depart_parsed = 0
    /\ arrive_parsed = 0
    /\ NonParseUnused

ParseNext == ReadRecord

ParseSpec == ParseInit /\ [][ParseNext]_vars

\* ----------------------------------------------------------- claim C19
\* field is a decimal integer: digits with at most one sign before them
ValidInteger(field) ==
    LET digits == IF field # <<>> /\ field[1] \in {Plus, Minus}
                  THEN Tail(field) ELSE field
    IN  digits # <<>> /\ \A k \in 1..Len(digits) : digits[k] \in DigitBytes

\* the text of the line before its first comma
DepartureField == schedule_record[1]

\* C19: a record whose departure field or arrival field is not a valid
\* integer is read without an error, with minute 0 for the field that is
\* not valid.
C19_InvalidFieldReadsZero ==
    (pc \in {"parsed", "panic"} /\
     (\/ ~ValidInteger(DepartureField)
      \/ (Len(schedule_record) >= 2 /\ ~ValidInteger(schedule_record[2])))) =>
        /\ pc = "parsed"
        /\ ~ValidInteger(DepartureField) => depart_parsed = 0
        /\ ~ValidInteger(schedule_record[2]) => arrive_parsed = 0

\* ======================================================== fare tables
\* Lines 388-444 of LoadCity (the loop over fare.csv), CSVToMatrixInt and
\* GenerateFaresTXT. A fare record is modelled after the split on ",":
\* field 1 the route codes, field 2 the fixed price, field 3 the name of a
\* fare-matrix table or "", field 4 the station codes joined by "|".
MaxFares == 2

CR == 13
LF == 10

\* the bundle's stations and routes as the earlier loops of LoadCity left
\* them: three stations A, B, C and two routes
FareStation(c, i) == [Code |-> <<c>>, Index |-> i]
fare_stations_by_code ==
    {<<<<65>>, FareStation(65, 0)>>, <<<<66>>, FareStation(66, 1)>>,
     <<<<67>>, FareStation(67, 2)>>}
fare_routes_by_code ==
    {<<"R1", [Stations |-> <<FareStation(65, 0), FareStation(66, 1)>>]>>,
     <<"R2", [Stations |-> <<FareStation(65, 0), FareStation(66, 1),
                            FareStation(67, 2)>>]>>}

\* fare-matrix tables of the bundle, as byte values: "1,2\r\n3,4", the same
\* with a line end after the last row, "5", and "1,2\r\n3"
MatrixFiles ==
    {<<"m22.csv", <<49, Comma, 50, CR, LF, 51, Comma, 52>>>>,
     <<"m22nl.csv", <<49, Comma, 50, CR, LF, 51, Comma, 52, CR, LF>>>>,
     <<"m11.csv", <<53>>>>,
     <<"mrag.csv", <<49, Comma, 50, CR, LF, 51>>>>}

\* strings.Split(s, "\r\n")
RECURSIVE SplitLines(_)
SplitLines(s) ==
    IF \A k \in 1..(Len(s) - 1) : ~(s[k] = CR /\ s[k + 1] = LF)
    THEN <<s>>
    ELSE LET k == CHOOSE j \in 1..(Len(s) - 1) :
                      /\ s[j] = CR /\ s[j + 1] = LF
                      /\ \A i \in 1..(j - 1) : ~(s[i] = CR /\ s[i + 1] = LF)
         IN  <<SubSeq(s, 1, k - 1)>> \o SplitLines(SubSeq(s, k + 2, Len(s)))

\* the row CSVToMatrixInt builds from one line of the table
MatrixRow(matrix_record_line) ==
    LET matrix_record == Split(matrix_record_line, Comma)
    IN  [i \in 1..Len(matrix_record) |-> ParseInt(matrix_record[i]).value]

\* CSVToMatrixInt on a table that is in the bundle
CSVToMatrixInt(filename) ==
    LET matrix_csv_lines == SplitLines(MapGet(MatrixFiles, filename))
    IN  [k \in 1..Len(matrix_csv_lines) |-> MatrixRow(matrix_csv_lines[k])]

\* the stations a fare record names (lines 405-414)
FareStationsOf(fare_record) ==
    LET station_codes == Split(fare_record[4], Symbol("|"))
    IN  IF Len(station_codes) = 1 /\ station_codes[1] = <<>>
        THEN MapGet(fare_routes_by_code, fare_record[1]).Stations
        ELSE [k \in 1..Len(station_codes) |->
                 MapGet(fare_stations_by_code, station_codes[k])]

\* the matrix of a fare record (lines 417-436)
FareMatrixOf(fare_record, stations) ==
    IF fare_record[3] # ""
    THEN CSVToMatrixInt(fare_record[3])
    ELSE LET fixed_price == ParseInt(fare_record[2]).value
         IN  [x \in 1..Len(stations) |-> [y \in 1..Len(stations) |-> fixed_price]]

FareRecords ==
    {<<r, p, f, c>> : r \in {"R1", "R2"}, p \in {<<51>>, <<120>>},
                      f \in {""} \cup {m[1] : m \in MatrixFiles},
                      c \in {<<>>, <<65, Symbol("|"), 66>>}}
FareTables == UNION {[1..n -> FareRecords] : n \in 1..MaxFares}

\* one iteration of the loop over fare.csv
ReadFareRecord ==
    /\ pc = "fare"
    /\ fare_idx < Len(fare_csv_lines)
    /\ LET fare_record == fare_csv_lines[fare_idx + 1]
           stations == FareStationsOf(fare_record)
       IN  /\ fare_matrices' = Append(fare_matrices, FareMatrixOf(fare_record, stations))
           /\ fare_matrix_stations' = Append(fare_matrix_stations, stations)
    /\ fare_idx' = fare_idx + 1
    /\ UNCHANGED <<pc, fare_csv_lines, fare_attrs, nonFareVars>>

\* the loop ends; the city LoadCity returns holds both lists
FaresLoaded ==
    /\ pc = "fare"
    /\ fare_idx = Len(fare_csv_lines)
    /\ pc' = "fares_loaded"
    /\ UNCHANGED <<fareVars, nonFareVars>>

\* the lookups (*city.FareMatrices[i])[x][y] of GenerateFaresTXT that are
\* out of range: <<i, x, y>>, 0-based
OutOfRangeLookups ==
    {t \in UNION {{<<i, x, y>> : x \in 0..(Len(fare_matrix_stations[i + 1]) - 1),
                                 y \in 0..(Len(fare_matrix_stations[i + 1]) - 1)} :
                  i \in 0..(Len(fare_matrix_stations) - 1)} :
        \/ t[2] >= Len(fare_matrices[t[1] + 1])
        \/ t[3] >= Len(fare_matrices[t[1] + 1][t[2] + 1])}

RECURSIVE FlattenRows(_)
FlattenRows(rows) ==
    IF rows = <<>> THEN <<>> ELSE Head(rows) \o FlattenRows(Tail(rows))

\* the rows of fare_attributes.txt for fare rule i (0-based)
AttrsOf(i) ==
    LET fms == fare_matrix_stations[i + 1]
    IN  FlattenRows([x \in 1..Len(fms) |->
            [y \in 1..Len(fms) |->
                <<fms[x].Index, fms[y].Index, fare_matrices[i + 1][x][y]>>]])

\* GenerateFaresTXT on the loaded city: a lookup out of range is a panic
GenerateFaresTXT ==
    /\ pc = "fares_loaded"
    /\ IF OutOfRangeLookups # {}
       THEN /\ pc' = "fares_panic"
            /\ fare_attrs' = fare_attrs
       ELSE /\ pc' = "fares_written"
            /\ fare_attrs' = FlattenRows([k \in 1..Len(fare_matrix_stations) |->
                                             AttrsOf(k - 1)])
    /\ UNCHANGED <<fare_csv_lines, fare_idx, fare_matrices,
                   fare_matrix_stations, nonFareVars>>

FareInit ==
    /\ pc = "fare"
    /\ fare_csv_lines \in FareTables
    /\ fare_idx = 0
    /\ fare_matrices = <<>>
    /\ fare_matrix_stations = <<>>
    /\ fare_attrs = <<>>
    /\ NonFareUnused

FareNext ==
    \/ ReadFareRecord
    \/ FaresLoaded
    \/ GenerateFaresTXT

FareSpec == FareInit /\ [][FareNext]_vars

\* ----------------------------------------------------------- claim C21
\* fare rule i (1-based here) has a square matrix of its station list's size
SquareOverStations(i) ==
    /\ Len(fare_matrices[i]) = Len(fare_matrix_stations[i])
    /\ \A x \in 1..Len(fare_matrices[i]) :
          Len(fare_matrices[i][x]) = Len(fare_matrix_stations[i])

\* C21: after a city load every fare matrix is square with the side of its
\* paired station list, whether filled from a fixed price or read from a
\* fare-matrix table, so the lookups of GenerateFaresTXT are in range.
C21_FareMatrixSquare ==
    /\ pc \in {"fares_loaded", "fares_written", "fares_panic"} =>
          \A i \in 1..Len(fare_matrices) : SquareOverStations(i)
    /\ pc # "fares_panic"

\* ==================================================== concurrent loads
\* net/http runs each request's handler on its own goroutine. Two requests
\* for different codes run s.LoadCity (part_005:196-228) on the one server
\* makeGtfsGenerator closes over; the server has no lock. An assignment to
\* a Go map is not atomic: it is modelled as a begin and an end step. Two
\* assignments to one map that overlap are a data race, whose outcomes are
\* the runtime's fatal error "concurrent map writes", or a map that holds
\* either assignment, both, or neither.
Goroutines == {1, 2}

\* a complete archive and one without uno.csv
ConcArchives ==
    {[files |-> AllFiles, names_matrix |-> TRUE],
     [files |-> AllFiles \ {"uno.csv"}, names_matrix |-> TRUE]}

\* the tables LoadCity needs that archive z lacks
MissingFrom(z) ==
    {t \in AllFiles \ z.files : t # "fare_matrix" \/ z.names_matrix}

Accessed(g, field, kind) == accesses' = accesses \cup {<<g, field, kind>>}

\* the maps an overlapped assignment m[k] = v can leave behind
MapWriteOutcomes(m, k, v, raced) ==
    IF raced
    THEN {MapPut(m, k, v), m, {p \in MapPut(m, k, v) : p[1] = k}}
    ELSE {MapPut(m, k, v)}

\* zip_date, ok := s.ZipDateLookup[code]
LookupZipDate(g) ==
    /\ pc = "serving"
    /\ g_pc[g] = "lookup"
    /\ Accessed(g, "ZipDateLookup", "read")
    /\ IF MapHas(conc_ZipDateLookup, g_code[g])
       THEN /\ g_pc' = [g_pc EXCEPT ![g] = "get"]
            /\ g_err' = g_err
       ELSE /\ g_pc' = [g_pc EXCEPT ![g] = "returned"]
            /\ g_err' = [g_err EXCEPT ![g] = <<"has not been loaded", g_code[g]>>]
    /\ UNCHANGED <<pc, conc_ZipDateLookup, conc_CityZips, conc_Cities, g_code,
                   g_zip, writing, overlapped, nonConcVars>>

\* http.Get or io.ReadAll returns an error
GetFails(g) ==
    /\ pc = "serving"
    /\ g_pc[g] = "get"
    /\ g_pc' = [g_pc EXCEPT ![g] = "returned"]
    /\ g_err' = [g_err EXCEPT ![g] = <<"download failed">>]
    /\ UNCHANGED <<pc, conc_ZipDateLookup, conc_CityZips, conc_Cities, g_code,
                   g_zip, writing, overlapped, accesses, nonConcVars>>

\* the archive arrives
GetZip(g) ==
    /\ pc = "serving"
    /\ g_pc[g] = "get"
    /\ \E z \in ConcArchives : g_zip' = [g_zip EXCEPT ![g] = z]
    /\ g_pc' = [g_pc EXCEPT ![g] = "store_zip"]
    /\ UNCHANGED <<pc, conc_ZipDateLookup, conc_CityZips, conc_Cities, g_code,
                   g_err, writing, overlapped, accesses, nonConcVars>>

\* field of s that the assignment at position p writes
FieldAt(p) == IF p \in {"store_zip", "zip_writing"} THEN "CityZips" ELSE "Cities"

\* s.CityZips[code] = zip or s.Cities[code] = city begins
BeginMapAssign(g) ==
    /\ pc = "serving"
    /\ g_pc[g] \in {"store_zip", "store_city"}
    /\ Accessed(g, FieldAt(g_pc[g]), "write")
    /\ writing' = writing \cup {<<g, FieldAt(g_pc[g])>>}
    /\ overlapped' = IF \E w \in writing : w[2] = FieldAt(g_pc[g])
                     THEN overlapped \cup {FieldAt(g_pc[g])}
                     ELSE overlapped
    /\ g_pc' = [g_pc EXCEPT ![g] = IF g_pc[g] = "store_zip"
                                   THEN "zip_writing" ELSE "city_writing"]
    /\ UNCHANGED <<pc, conc_ZipDateLookup, conc_CityZips, conc_Cities, g_code,
                   g_zip, g_err, nonConcVars>>

\* the runtime finds the map being written by another goroutine and ends
\* the process: fatal error: concurrent map writes
ConcurrentMapWrites(g) ==
    /\ pc = "serving"
    /\ g_pc[g] \in {"store_zip", "store_city"}
    /\ \E w \in writing : w[2] = FieldAt(g_pc[g])
    /\ Accessed(g, FieldAt(g_pc[g]), "write")
    /\ pc' = "fatal"
    /\ UNCHANGED <<conc_ZipDateLookup, conc_CityZips, conc_Cities, g_pc, g_code,
                   g_zip, g_err, writing, overlapped, nonConcVars>>

\* s.CityZips[code] = zip ends
EndStoreZip(g) ==
    /\ pc = "serving"
    /\ g_pc[g] = "zip_writing"
    /\ conc_CityZips' \in MapWriteOutcomes(conc_CityZips, g_code[g], g_zip[g],
                                           "CityZips" \in overlapped)
    /\ writing' = writing \ {<<g, "CityZips">>}
    /\ overlapped' = IF \E w \in writing' : w[2] = "CityZips"
                     THEN overlapped ELSE overlapped \ {"CityZips"}
    /\ g_pc' = [g_pc EXCEPT ![g] = "load"]
    /\ UNCHANGED <<pc, conc_ZipDateLookup, conc_Cities, g_code, g_zip, g_err,
                   accesses, nonConcVars>>

\* city, err := LoadCity(zip_date, zip): works on the call's own zip
LoadZip(g) ==
    /\ pc = "serving"
    /\ g_pc[g] = "load"
    /\ IF MissingFrom(g_zip[g]) # {}
       THEN /\ g_pc' = [g_pc EXCEPT ![g] = "returned"]
            /\ g_err' = [g_err EXCEPT ![g] = <<"could not open">>]
       ELSE /\ g_pc' = [g_pc EXCEPT ![g] = "store_city"]
            /\ g_err' = g_err
    /\ UNCHANGED <<pc, conc_ZipDateLookup, conc_CityZips, conc_Cities, g_code,
                   g_zip, writing, overlapped, accesses, nonConcVars>>

\* s.Cities[code] = city ends; return nil
EndStoreCity(g) ==
    /\ pc = "serving"
    /\ g_pc[g] = "city_writing"
    /\ conc_Cities' \in MapWriteOutcomes(conc_Cities, g_code[g],
                                         [built_from |-> g_zip[g]],
                                         "Cities" \in overlapped)
    /\ writing' = writing \ {<<g, "Cities">>}
    /\ overlapped' = IF \E w \in writing' : w[2] = "Cities"
                     THEN overlapped ELSE overlapped \ {"Cities"}
    /\ g_pc' = [g_pc EXCEPT ![g] = "returned"]
    /\ UNCHANGED <<pc, conc_ZipDateLookup, conc_CityZips, g_code, g_zip, g_err,
                   accesses, nonConcVars>>

\* the server as CreateServer returned it; two requests for different codes
ConcInit ==
    /\ pc = "serving"
    /\ conc_ZipDateLookup = {<<c, "20240101">> : c \in CityCodes}
    /\ conc_CityZips = {}
    /\ conc_Cities = {}
    /\ g_pc = [g \in Goroutines |-> "lookup"]
    /\ g_code \in {f \in [Goroutines -> RequestedCodes] : f[1] # f[2]}
    /\ g_zip = [g \in Goroutines |-> NoZip]
    /\ g_err = [g \in Goroutines |-> <<>>]
    /\ writing = {}
    /\ overlapped = {}
    /\ accesses = {}
    /\ NonConcUnused

ConcNext ==
    \E g \in Goroutines :
        \/ LookupZipDate(g)
        \/ GetFails(g)
        \/ GetZip(g)
        \/ BeginMapAssign(g)
        \/ ConcurrentMapWrites(g)
        \/ EndStoreZip(g)
        \/ LoadZip(g)
        \/ EndStoreCity(g)

ConcSpec == ConcInit /\ [][ConcNext]_vars

\* ----------------------------------------------------------- claim C22
\* the fields of s that two different goroutines have both accessed
SharedFields ==
    {a[2] : a \in {b \in accesses :
                      \E c \in accesses : c[1] # b[1] /\ c[2] = b[2]}}

\* C22: two concurrent loads of different cities have no field of the
\* server in common but the version lookup, which neither writes; no
\* interleaving has both access one mutable map.
C22_OnlyVersionLookupShared ==
    /\ SharedFields \subseteq {"ZipDateLookup"}
    /\ \A a \in accesses : a[2] = "ZipDateLookup" => a[3] = "read"
    /\ pc # "fatal"

\* ================================================ generation operations
\* GenerateStopsTXT, GenerateRoutesTXT and GenerateCalendarTXT on one loaded
\* city, each called up to MaxInvocations times, as MetromanGenerateGTFSZip
\* calls them (full = false, so no station URL is looked up). A result is
\* the rows written after the header; a row holds the fields that vary.
\* city.StationsByCode and city.ScheduleDef are Go maps: a range over one
\* visits its entries in an order that is not specified and that differs
\* from one range statement to the next.
MaxInvocations == 2
MaxHolidays == 2

\* the enumerations of the entries of Go map m that a range can take
RangeOrders(m) ==
    {f \in [1..Cardinality(m) -> m] :
        \A i, j \in 1..Cardinality(m) : f[i] = f[j] => i = j}

RECURSIVE Concat(_)
Concat(seqs) == IF seqs = <<>> THEN <<>> ELSE Head(seqs) \o Concat(Tail(seqs))

\* fmt.Sprintf("%0<n>d", v) for v >= 0, as digit values
RECURSIVE PadDecimal(_, _)
PadDecimal(v, n) ==
    IF v < 10 /\ n <= 1
    THEN <<v>>
    ELSE Append(PadDecimal(v \div 10, n - 1), v % 10)

\* fmt.Sprintf("%04d%02d%02d", holiday.Year, holiday.Month, holiday.Day)
FormatDate(holiday) ==
    PadDecimal(holiday.Year, 4) \o PadDecimal(holiday.Month, 2)
        \o PadDecimal(holiday.Day, 2)

\* the exception type written for every holiday of a schedule, with every
\* schedule suppressed
DateAction_AlwaysRemove(schedule) == 2

\* date_action of GenerateCalendarTXT
DateAction(schedule) == IF schedule.Holidays THEN 1 ELSE 2

\* the row of stops.txt for one entry of city.StationsByCode
StopRow(entry) == <<entry[1], entry[2].Lat, entry[2].Lng>>

\* the rows of calendar.txt and of calendar_dates.txt for one schedule
CalendarRows(schedule) ==
    IF (\E d \in 1..7 : schedule.DaysOfWeek[d] = 1) \/ schedule.Holidays
    THEN << <<schedule.Code, schedule.DaysOfWeek>> >>
    ELSE <<>>
CalendarDateRows(schedule, holidays) ==
    [h \in 1..Len(holidays) |->
        <<schedule.Code, FormatDate(holidays[h]), DateAction(schedule)>>]

GenerateStopsTXT ==
    /\ pc = "loaded"
    /\ Len(stops_txt) < MaxInvocations
    /\ \E order \in RangeOrders(city.StationsByCode) :
          stops_txt' = Append(stops_txt,
                              [k \in 1..Len(order) |-> StopRow(order[k])])
    /\ UNCHANGED <<pc, city, city_loaded, routes_txt, calendar_txt,
                   calendar_dates_txt, nonGenVars>>

\* city.Routes is a slice: the rows follow its order
GenerateRoutesTXT ==
    /\ pc = "loaded"
    /\ Len(routes_txt) < MaxInvocations
    /\ routes_txt' =
          Append(routes_txt,
                 Concat([k \in 1..Len(city.Routes) |->
                            IF city.Routes[k].Trips > 0
                            THEN << <<city.Routes[k].Code>> >> ELSE <<>>]))
    /\ UNCHANGED <<pc, city, city_loaded, stops_txt, calendar_txt,
                   calendar_dates_txt, nonGenVars>>

GenerateCalendarTXT ==
    /\ pc = "loaded"
    /\ Len(calendar_txt) < MaxInvocations
    /\ \E order \in RangeOrders(city.ScheduleDef) :
          /\ calendar_txt' =
                Append(calendar_txt,
                       Concat([k \in 1..Len(order) |-> CalendarRows(order[k][2])]))
          /\ calendar_dates_txt' =
                Append(calendar_dates_txt,
                       Concat([k \in 1..Len(order) |->
                                  CalendarDateRows(order[k][2], city.Holidays)]))
    /\ UNCHANGED <<pc, city, city_loaded, stops_txt, routes_txt, nonGenVars>>

\* loaded cities: stations, routes, holidays (a date may be listed twice)
\* and schedule definitions, keyed by code
GenStations ==
    {<<"A", [Lat |-> 399042, Lng |-> 1164074]>>,
     <<"B", [Lat |-> 399100, Lng |-> 1164200]>>}
GenRoutes == <<[Code |-> "R1", Trips |-> 1], [Code |-> "R2", Trips |-> 0]>>
NoDays == <<0, 0, 0, 0, 0, 0, 0>>
Weekdays == <<1, 1, 1, 1, 1, 0, 0>>
GenSchedules ==
    {<<"wk", [Code |-> "wk", DaysOfWeek |-> Weekdays, Holidays |-> FALSE]>>,
     <<"hol", [Code |-> "hol", DaysOfWeek |-> NoDays, Holidays |-> TRUE]>>,
     <<"off", [Code |-> "off", DaysOfWeek |-> NoDays, Holidays |-> FALSE]>>}
GenDates ==
    {[Year |-> 2024, Month |-> 1, Day |-> 1],
     [Year |-> 2024, Month |-> 10, Day |-> 3]}
GenCities ==
    [StationsByCode : (SUBSET GenStations) \ {{}},
     Routes : {GenRoutes},
     Holidays : UNION {[1..n -> GenDates] : n \in 0..MaxHolidays},
     ScheduleDef : SUBSET GenSchedules]

GenInit ==
    /\ pc = "loaded"
    /\ city \in GenCities
    /\ city_loaded = city
    /\ stops_txt = <<>>
    /\ routes_txt = <<>>
    /\ calendar_txt = <<>>
    /\ calendar_dates_txt = <<>>
    /\ NonGenUnused

GenNext ==
    \/ GenerateStopsTXT
    \/ GenerateRoutesTXT
    \/ GenerateCalendarTXT

GenSpec == GenInit /\ [][GenNext]_vars

\* ----------------------------------------------------------- claim C23
\* every two results of one operation are the same rows in the same order
SameEachTime(results) ==
    \A i, j \in 1..Len(results) : results[i] = results[j]

\* C23: two invocations of a generation operation on the same loaded city
\* emit the same rows in the same order, and the city is as it was loaded.
C23_OrderStable ==
    /\ SameEachTime(stops_txt)
    /\ SameEachTime(routes_txt)
    /\ SameEachTime(calendar_txt)
    /\ SameEachTime(calendar_dates_txt)
    /\ city = city_loaded

\* ----------------------------------------------------------- claim C26
\* the rows of one calendar_dates.txt result that carry service_id c
RowsOfService(rows, c) == SelectSeq(rows, LAMBDA r : r[1] = c)

\* the services a calendar_dates.txt result adds on the date of a holiday
AddedOn(rows, holiday) ==
    {rows[k][1] : k \in {n \in 1..Len(rows) :
                            rows[n][2] = FormatDate(holiday) /\ rows[n][3] = 1}}

\* C26: every result of GenerateCalendarTXT holds, for each defined schedule
\* and each loaded holiday, one exception row with the holiday's date, of
\* type 1 if the schedule has Holidays set and of type 2 if not, and no
\* other row; the services added on a holiday are the schedules with
\* Holidays set.
C26_HolidayExceptions ==
    \A k \in 1..Len(calendar_dates_txt) :
        LET rows == calendar_dates_txt[k]
            holidays == city.Holidays
        IN  /\ Len(rows) = Cardinality(city.ScheduleDef) * Len(holidays)
            /\ \A e \in city.ScheduleDef :
                  RowsOfService(rows, e[1]) =
                      [h \in 1..Len(holidays) |->
                          <<e[1], FormatDate(holidays[h]),
                            IF e[2].Holidays THEN 1 ELSE 2>>]
            /\ \A h \in 1..Len(holidays) :
                  AddedOn(rows, holidays[h]) =
                      {e[1] : e \in {d \in city.ScheduleDef : d[2].Holidays}}

\* a result for a city with a holiday schedule, a weekday schedule and two
\* different holidays
C26_Witness ==
    /\ Len(calendar_dates_txt) >= 1
    /\ {"wk", "hol"} \subseteq {e[1] : e \in city.ScheduleDef}
    /\ Len(city.Holidays) = 2
    /\ city.Holidays[1] # city.Holidays[2]
    /\ Len(calendar_dates_txt[1]) >= 4

\* ============================================ schedule-position lookup
\* One record of way.csv (part_005:357-385) and the lookups Step B makes
\* with the route it built (part_005:626-628). stations[i].Index is i
\* (uno.csv loop), so a station is its index.
MaxWayStations == 3
MaxStationIndex == 3

\* slices.Sort: ascending
RECURSIVE InsertSorted(_, _)
InsertSorted(sorted, v) ==
    IF sorted = <<>> \/ v <= Head(sorted)
    THEN <<v>> \o sorted
    ELSE <<Head(sorted)>> \o InsertSorted(Tail(sorted), v)
\* the indices left in route order
SortedInts_Unsorted(station_indices) == station_indices
RECURSIVE SortedInts(_)
SortedInts(station_indices) ==
    IF station_indices = <<>>
    THEN <<>>
    ELSE InsertSorted(SortedInts(Tail(station_indices)), Head(station_indices))

\* for i, station_idx := range station_indices { m[station_idx] = i }
RECURSIVE AssignRanks(_, _, _)
AssignRanks(m, station_indices, i) ==
    IF i >= Len(station_indices)
    THEN m
    ELSE AssignRanks(MapPut(m, station_indices[i + 1], i), station_indices, i + 1)

WayRecords ==
    UNION {[1..n -> 0..MaxStationIndex] : n \in 2..MaxWayStations}

\* the body of the loop over way.csv for one record
ReadWayRecord ==
    /\ pc = "way"
    /\ way_stations' = way_record
    /\ LET station_indices == SubSeq(way_stations', 1, Len(way_stations') - 1)
       IN  station_to_schedule_idx' = AssignRanks({}, SortedInts(station_indices), 0)
    /\ way_station_i' = 0
    /\ pc' = "walk"
    /\ UNCHANGED <<way_record, cells_read, nonWayVars>>

\* the lookup at the head of Step B's loop over the route's hops
LookUpSchedule ==
    /\ pc = "walk"
    /\ way_station_i < Len(way_stations) - 1
    /\ cells_read' = Append(cells_read,
                            MapGet(station_to_schedule_idx,
                                   way_stations[way_station_i + 1]))
    /\ way_station_i' = way_station_i + 1
    /\ UNCHANGED <<pc, way_record, way_stations, station_to_schedule_idx,
                   nonWayVars>>

\* the loop over the hops ends
EndWalk ==
    /\ pc = "walk"
    /\ way_station_i = Len(way_stations) - 1
    /\ pc' = "walked"
    /\ UNCHANGED <<wayVars, nonWayVars>>

WayInit ==
    /\ pc = "way"
    /\ way_record \in WayRecords
    /\ way_stations = <<>>
    /\ station_to_schedule_idx = {}
    /\ way_station_i = 0
    /\ cells_read = <<>>
    /\ NonWayUnused

WayNext ==
    \/ ReadWayRecord
    \/ LookUpSchedule
    \/ EndWalk

WaySpec == WayInit /\ [][WayNext]_vars

\* ----------------------------------------------------------- claim C24
\* the stations of the route without the terminal position
NonTerminal == {way_stations[j] : j \in 1..(Len(way_stations) - 1)}

\* number of non-terminal stations with a smaller index: the 0-based rank
RankOf(station) == Cardinality({t \in NonTerminal : t < station})

DistinctStations ==
    \A i, j \in 1..Len(way_stations) : way_stations[i] = way_stations[j] => i = j

\* C24: for a route of n distinct stations the lookup has one entry per
\* station but the terminal one, maps it to its 0-based rank by ascending
\* station index, and so is one-to-one onto 0..n-2; Step B at route
\* position i reads the cell at the rank of the station at position i.
C24_LookupIsRank ==
    pc \in {"walk", "walked"} =>
        /\ {p[1] : p \in station_to_schedule_idx} = NonTerminal
        /\ DistinctStations =>
              /\ \A p \in station_to_schedule_idx : p[2] = RankOf(p[1])
              /\ {p[2] : p \in station_to_schedule_idx} = 0..(Len(way_stations) - 2)
              /\ \A p, q \in station_to_schedule_idx : p[2] = q[2] => p = q
              /\ \A i \in 1..Len(cells_read) :
                    cells_read[i] = RankOf(way_stations[i])

\* the route 2, 0, 1: position 0 reads cell 1 and position 1 reads cell 0
C24_Witness ==
    /\ pc = "walked"
    /\ way_stations = <<2, 0, 1>>
    /\ cells_read = <<1, 0>>

\* ============================== coordinates of stations and of shapes
\* The MS records of uno.csv (part_005:262-285), path_latlng.csv and
\* path_rail.csv (part_005:715-753), then GenerateStopsTXT and
\* GenerateShapesTXT for one route A -> B. A coordinate carries the number
\* of times GCJ02ToWGS84 was applied to it (corrections), which the program
\* does not store. A field ParseFloat cannot read is 0, so (0, 0) is among
\* the raw coordinates.
MaxCoordStations == 1

\* a raw coordinate of the bundle
Raw(lat, lng) == [Lat |-> <<lat, lat>>, Lng |-> <<lng, lng>>, corrections |-> 0]
RawInside == Raw(39904200, 116407400)
RawOutside == Raw(0, 0)

\* common.GCJ02ToWGS84(c), counted
Corrected(c) ==
    LET w == GCJ02ToWGS84(c)
    IN  [Lat |-> w.Lat, Lng |-> w.Lng, corrections |-> c.corrections + 1]

\* the station keeps the coordinates as read
StationCoord_Raw(c) == c

\* corrected_coord of the MS branch
StationCoord(c) == Corrected(c)

StationCodeOf(k) == IF k = 1 THEN "A" ELSE IF k = 2 THEN "B" ELSE "C"

\* uno.csv: every MS record becomes a station with corrected coordinates
ReadStationCoords ==
    /\ pc = "coords_uno"
    /\ coord_stations' =
          [k \in 1..Len(stations_raw) |->
              [Code |-> StationCodeOf(k), Coord |-> StationCoord(stations_raw[k])]]
    /\ pc' = "coords_path"
    /\ UNCHANGED <<stations_raw, path_raw, path_rail_record, all_latlng_coords,
                   StationPaths, stops_coords, shape_coords, nonCoordVars>>

\* path_latlng.csv: every record is corrected and appended
ReadPathLatLng ==
    /\ pc = "coords_path"
    /\ all_latlng_coords' = [k \in 1..Len(path_raw) |-> Corrected(path_raw[k])]
    /\ pc' = "coords_rail"
    /\ UNCHANGED <<stations_raw, path_raw, path_rail_record, coord_stations,
                   StationPaths, stops_coords, shape_coords, nonCoordVars>>

\* path_rail.csv: line.StationPaths[path_code] = all_latlng_coords[lower : upper+1]
ReadPathRail ==
    /\ pc = "coords_rail"
    /\ LET path_code == <<path_rail_record.from, path_rail_record.to>>
       IN  StationPaths' =
               MapPut(StationPaths, path_code,
                      SubSeq(all_latlng_coords, path_rail_record.lower + 1,
                             path_rail_record.upper + 1))
    /\ pc' = "loaded"
    /\ UNCHANGED <<stations_raw, path_raw, path_rail_record, coord_stations,
                   all_latlng_coords, stops_coords, shape_coords, nonCoordVars>>

\* GenerateStopsTXT: one row per entry of city.StationsByCode, with the
\* station's Lat and Lng as stored
WriteStopCoords ==
    /\ pc = "loaded"
    /\ stops_coords = <<>>
    /\ \E order \in RangeOrders({<<coord_stations[k].Code, coord_stations[k]>> :
                                    k \in 1..Len(coord_stations)}) :
          stops_coords' = [k \in 1..Len(order) |->
                              <<order[k][1], order[k][2].Coord>>]
    /\ UNCHANGED <<pc, stations_raw, path_raw, path_rail_record, coord_stations,
                   all_latlng_coords, StationPaths, shape_coords, nonCoordVars>>

Reversed(coords) == [i \in 1..Len(coords) |-> coords[Len(coords) + 1 - i]]

\* GenerateShapesTXT for the hop A -> B: the path A_B forwards if the line
\* has it, the path B_A backwards if not
WriteShapeCoords ==
    /\ pc = "loaded"
    /\ shape_coords = <<>>
    /\ LET coords == IF MapHas(StationPaths, <<"A", "B">>)
                     THEN MapGet(StationPaths, <<"A", "B">>)
                     ELSE IF MapHas(StationPaths, <<"B", "A">>)
                     THEN Reversed(MapGet(StationPaths, <<"B", "A">>))
                     ELSE <<>>
       IN  shape_coords' = coords
    /\ pc' = IF stops_coords = <<>> THEN "loaded" ELSE "written"
    /\ UNCHANGED <<stations_raw, path_raw, path_rail_record, coord_stations,
                   all_latlng_coords, StationPaths, stops_coords, nonCoordVars>>

\* the bundles: one raw coordinate per station, a path of one coordinate
\* inside China and one outside, and a rail record for either direction
PathRailRecords ==
    {[from |-> k[1], to |-> k[2], lower |-> r[1], upper |-> r[2]] :
        k \in {<<"A", "B">>, <<"B", "A">>}, r \in {<<0, 1>>, <<0, 0>>, <<1, 1>>}}

CoordInit ==
    /\ pc = "coords_uno"
    /\ stations_raw \in UNION {[1..n -> {RawInside, RawOutside}] :
                                  n \in 1..MaxCoordStations}
    /\ path_raw \in {<<RawInside, RawOutside>>, <<RawOutside, RawInside>>}
    /\ path_rail_record \in PathRailRecords
    /\ coord_stations = <<>>
    /\ all_latlng_coords = <<>>
    /\ StationPaths = {}
    /\ stops_coords = <<>>
    /\ shape_coords = <<>>
    /\ NonCoordUnused

CoordNext ==
    \/ ReadStationCoords
    \/ ReadPathLatLng
    \/ ReadPathRail
    \/ WriteStopCoords
    \/ WriteShapeCoords

CoordSpec == CoordInit /\ [][CoordNext]_vars

\* ----------------------------------------------------------- claim C25
\* w is raw after one application of the GCJ-02 to WGS-84 correction
OnceCorrected(w, raw) ==
    /\ w.corrections = 1
    /\ [Lat |-> w.Lat, Lng |-> w.Lng] = GCJ02ToWGS84(raw)

\* C25: every station position and every shape point written by a
\* generation operation is the coordinate read from the bundle with the
\* GCJ-02 to WGS-84 correction applied once: at load, and not again at
\* generation.
C25_CorrectedOnce ==
    /\ \A r \in 1..Len(stops_coords) :
          \E k \in 1..Len(stations_raw) :
              /\ stops_coords[r][1] = StationCodeOf(k)
              /\ OnceCorrected(stops_coords[r][2], stations_raw[k])
    /\ \A r \in 1..Len(shape_coords) :
          \E k \in 1..Len(path_raw) : OnceCorrected(shape_coords[r], path_raw[k])
    /\ \A k \in 1..Len(coord_stations) : coord_stations[k].Coord.corrections = 1
    /\ \A k \in 1..Len(all_latlng_coords) : all_latlng_coords[k].corrections = 1

\* a station inside China and a two-point shape written, the station moved
\* by the correction
C25_Witness ==
    /\ pc = "written"
    /\ stations_raw[1] = RawInside
    /\ stops_coords[1][2].Lat = <<39902796, 39902797>>
    /\ stops_coords[1][2].Lng = <<116401157, 116401158>>
    /\ Len(shape_coords) = 2

\* ============================================== a route of three hops
\* Step A and Step B as above, for a route with one station more than
\* MaxStations, so that a trip can miss a hop and meet a later one, and one
\* timing record per hop. With one schedule the fixed-count path is taken,
\* with two the boundary path.
\* the stations in ascending order of index, and with the first two exchanged
ChainStationLists ==
    {[i \in 1..(MaxStations + 1) |-> i - 1],
     [i \in 1..(MaxStations + 1) |-> IF i = 1 THEN 1 ELSE IF i = 2 THEN 0 ELSE i - 1]}
ChainTimingTables == [1..MaxStations -> TimingRecords]

ChainInit ==
    /\ pc = "start"
    /\ Stations \in ChainStationLists
    /\ Schedules \in RouteScheduleLists
    /\ schedule_csv_lines \in ChainTimingTables
    /\ csv_idx = 0
    /\ station_arrivals_departures = <<>>
    /\ schedule_station_arrivals_departures = <<>>
    /\ station_idx = 0
    /\ last_depart_min = 0
    /\ record_cell = <<>>
    /\ sched_i = 0
    /\ station_i = 0
    /\ trips = <<>>
    /\ trip_ended = <<>>
    /\ arrival_trip_assigned = {}
    /\ last_arrival_trip_assigned = {}
    /\ pending = {}
    /\ trips_by_schedule = <<>>
    /\ Trips = <<>>
    /\ CodecUnused
    /\ OtherUnused

ChainNext ==
    \/ ChoosePath
    \/ BoundaryRead
    \/ FixedRead
    \/ BeginSchedule
    \/ FinishRoute
    \/ HopPanic
    \/ BeginHop
    \/ EndSchedule
    \/ FirstHopTrip
    \/ ExtendTrip
    \/ StartNewTrip

ChainSpec == ChainInit /\ [][ChainNext]_vars

\* ----------------------------------------------------------- claim C27
\* the route positions of the visits of a trip
VisitPositions(trip) ==
    [k \in 1..Len(trip.Visits) |-> PosOf(trip.Visits[k].Station)]

\* the trip was created or extended in hop h: it has a visit of the station
\* after hop h that is not its first visit
GainedVisitIn(trip, h) ==
    \E k \in 2..Len(trip.Visits) : VisitPositions(trip)[k] = h + 1

\* no trip has a visit two or more stations after the visit before it
NoHopMissed ==
    \A i \in 1..Len(trips) :
        \A k \in 1..(Len(trips[i].Visits) - 1) :
            VisitPositions(trips[i])[k + 1] - VisitPositions(trips[i])[k] \in {0, 1}

\* a step that appends a visit to an existing trip happens at a hop h >= 1
\* and the trip gained a visit in hop h - 1
ExtensionFollowsGain ==
    \A i \in 1..Len(trips) :
        (pc = "entry" /\ i <= Len(trips') /\
         Len(trips'[i].Visits) > Len(trips[i].Visits)) =>
            /\ station_i >= 1
            /\ GainedVisitIn(trips[i], station_i - 1)

\* C27: within one schedule's reconstruction a trip is extended at hop h
\* only if it was created or extended in hop h-1, so a trip that gains no
\* visit in a hop gains none in any later hop.
C27_UnextendedStaysClosed ==
    /\ [](pc \in {"hop", "entry", "sched", "done"} => NoHopMissed)
    /\ [][ExtensionFollowsGain]_vars

\* hop 2 has been walked: a trip of hop 0 that gained nothing in hop 1
\* arrives at the minute at which a trip created in hop 2 departs
C27_Witness ==
    /\ pc = "hop"
    /\ station_i = 3
    /\ \E i, j \in 1..Len(trips) :
          /\ VisitPositions(trips[i]) = <<0, 1>>
          /\ VisitPositions(trips[j]) = <<2, 3>>
          /\ trips[i].Visits[2].ArrivalAndDepartMinutes =
                trips[j].Visits[1].ArrivalAndDepartMinutes

\* ========================================= the block loop, step by step
\* DecodeGeoDiff (part_003:61-127) with one step per iteration of its block
\* loop, for a line geometry. The input is written from a list of blocks:
\* <<"abs", lead, x, y>>, <<"delta", delta_x, delta_y>>, <<"sep">> and
\* <<"bad", bytes>> for a block that is cut short or holds an invalid
\* character.
WalkBlockPool ==
    {<<"abs", a[1], a[2], a[3]>> : a \in AbsoluteValues}
    \cup {<<"delta", d[1], d[2]>> : d \in DeltaValues}
    \cup {<<"sep">>,
          <<"bad", Truncated(DeltaBlock(1, 2))>>,
          <<"bad", Corrupted(AbsoluteBlock(Symbol("="), 1234, 5678), 13)>>}
\* a bad block is the last one, so that every block before it starts where
\* the loop reads it
WalkBlockLists ==
    {bs \in UNION {[1..n -> WalkBlockPool] : n \in 0..(MaxBlocks + 1)} :
        \A k \in 1..(Len(bs) - 1) : bs[k][1] # "bad"}

\* the characters of one block
EncodedBlock(b) ==
    CASE b[1] = "abs" -> AbsoluteBlock(b[2], b[3], b[4])
      [] b[1] = "delta" -> DeltaBlock(b[2], b[3])
      [] b[1] = "sep" -> Separator
      [] b[1] = "bad" -> b[2]

\* a 13-character block
ReadAbsoluteBlock ==
    /\ pc = "walking"
    /\ walk_index < Len(walk_geo_data)
    /\ walk_geo_data[walk_index + 1] \in {Symbol("="), Symbol("-")}
    /\ Len(walk_geo_data) - walk_index >= 13
    /\ LET block == SubSeq(walk_geo_data, walk_index + 1, walk_index + 13)
           parsed == Parse13Block(block, walk_point)
       IN  /\ parsed.ok
           /\ walk_point' = parsed.current_point
           /\ walk_points' = Append(walk_points, walk_point')
    /\ walk_index' = walk_index + 13
    /\ walk_done' = walk_done + 1
    /\ UNCHANGED <<pc, walk_blocks, walk_geo_data, walk_result, nonWalkVars>>

\* ";": current_point = Mercator{}; index++
ReadSeparator ==
    /\ pc = "walking"
    /\ walk_index < Len(walk_geo_data)
    /\ walk_geo_data[walk_index + 1] = Symbol(";")
    /\ walk_point' = MercatorZero
    /\ walk_index' = walk_index + 1
    /\ walk_done' = walk_done + 1
    /\ UNCHANGED <<pc, walk_blocks, walk_geo_data, walk_points, walk_result,
                   nonWalkVars>>

\* an 8-character block
ReadDeltaBlock ==
    /\ pc = "walking"
    /\ walk_index < Len(walk_geo_data)
    /\ walk_geo_data[walk_index + 1] \notin {Symbol("="), Symbol("-"), Symbol(";")}
    /\ Len(walk_geo_data) - walk_index >= 8
    /\ LET block == SubSeq(walk_geo_data, walk_index + 1, walk_index + 8)
           parsed == Parse8Block(block, walk_point)
       IN  /\ parsed.ok
           /\ walk_point' = parsed.current_point
           /\ walk_points' = Append(walk_points, walk_point')
    /\ walk_index' = walk_index + 8
    /\ walk_done' = walk_done + 1
    /\ UNCHANGED <<pc, walk_blocks, walk_geo_data, walk_result, nonWalkVars>>

\* a block that is too short or does not parse: return GeoDiff{}
RejectBlock ==
    /\ pc = "walking"
    /\ walk_index < Len(walk_geo_data)
    /\ LET c == walk_geo_data[walk_index + 1]
           width == IF c \in {Symbol("="), Symbol("-")} THEN 13 ELSE 8
       IN  /\ c # Symbol(";")
           /\ \/ Len(walk_geo_data) - walk_index < width
              \/ /\ Len(walk_geo_data) - walk_index >= width
                 /\ LET block == SubSeq(walk_geo_data, walk_index + 1,
                                        walk_index + width)
                    IN  IF width = 13
                        THEN ~Parse13Block(block, walk_point).ok
                        ELSE ~Parse8Block(block, walk_point).ok
    /\ walk_result' = GeoDiffZero
    /\ pc' = "walked"
    /\ UNCHANGED <<walk_blocks, walk_geo_data, walk_index, walk_point,
                   walk_points, walk_done, nonWalkVars>>

\* the loop ends: every point is divided by 100 and the GeoDiff returned
ReturnGeoDiff ==
    /\ pc = "walking"
    /\ ~(walk_index < Len(walk_geo_data))
    /\ walk_result' =
          [Type |-> GEO_TYPE_LINE,
           Points |-> [i \in 1..Len(walk_points) |->
                          [X |-> DivideBy100(walk_points[i].X),
                           Y |-> DivideBy100(walk_points[i].Y)]]]
    /\ pc' = "walked"
    /\ UNCHANGED <<walk_blocks, walk_geo_data, walk_index, walk_point,
                   walk_points, walk_done, nonWalkVars>>

WalkInit ==
    /\ pc = "walking"
    /\ walk_blocks \in WalkBlockLists
    /\ walk_geo_data = Flatten([k \in 1..Len(walk_blocks) |->
                                   EncodedBlock(walk_blocks[k])])
    /\ walk_index = 0
    /\ walk_point = MercatorZero
    /\ walk_points = <<>>
    /\ walk_done = 0
    /\ walk_result = <<>>
    /\ NonWalkUnused

WalkNext ==
    \/ ReadAbsoluteBlock
    \/ ReadSeparator
    \/ ReadDeltaBlock
    \/ RejectBlock
    \/ ReturnGeoDiff

WalkSpec == WalkInit /\ [][WalkNext]_vars

\* ----------------------------------------------------------- claim C28
\* a delta as it is added: a value above 2^23 counts as 2^23 minus itself
FoldedValue(delta) == IF delta > 8388608 THEN 8388608 - delta ELSE delta

\* the running point after the blocks bs, by the rule of the claim
RECURSIVE RunningPoint(_)
RunningPoint(bs) ==
    IF bs = <<>>
    THEN [X |-> 0, Y |-> 0]
    ELSE LET b == bs[Len(bs)]
             before == RunningPoint(SubSeq(bs, 1, Len(bs) - 1))
         IN  CASE b[1] = "abs" -> [X |-> b[3], Y |-> b[4]]
               [] b[1] = "sep" -> [X |-> 0, Y |-> 0]
               [] b[1] = "delta" -> [X |-> before.X + FoldedValue(b[2]),
                                     Y |-> before.Y + FoldedValue(b[3])]

\* the blocks among the first n that emit a point, as positions
Emitting(n) == {k \in 1..n : walk_blocks[k][1] \in {"abs", "delta"}}

RECURSIVE WidthOf(_)
WidthOf(bs) ==
    IF bs = <<>> THEN 0
    ELSE (CASE Head(bs)[1] = "abs" -> 13 [] Head(bs)[1] = "sep" -> 1
            [] Head(bs)[1] = "delta" -> 8) + WidthOf(Tail(bs))

\* v hundredths are q: q is exactly v / 100
IsHundredthOf(q, v) == q.Units * 100 + q.Hundredths = v

\* C28: after any prefix of blocks the running point is the value of the
\* last absolute block (the origin if there is none or a ";" came after it)
\* plus the folded deltas read since; ";" emits no point and takes one
\* character; every absolute and every delta block emits one point, which
\* the result holds as the running point after it divided by 100.
C28_RunningPoint ==
    pc \in {"walking", "walked"} =>
        LET consumed == SubSeq(walk_blocks, 1, walk_done)
        IN  /\ walk_point = RunningPoint(consumed)
            /\ walk_index = WidthOf(consumed)
            /\ Len(walk_points) = Cardinality(Emitting(walk_done))
            /\ \A k \in Emitting(walk_done) :
                  walk_points[Cardinality(Emitting(k))] =
                      RunningPoint(SubSeq(walk_blocks, 1, k))
            /\ (pc = "walked" /\ walk_done = Len(walk_blocks)) =>
                  /\ Len(walk_result.Points) = Len(walk_points)
                  /\ \A i \in 1..Len(walk_points) :
                        /\ IsHundredthOf(walk_result.Points[i].X, walk_points[i].X)
                        /\ IsHundredthOf(walk_result.Points[i].Y, walk_points[i].Y)

\* a delta block, an absolute block and a delta block were read: the
\* absolute block replaced a running point that was not the origin
C28_Witness ==
    /\ pc = "walked"
    /\ walk_done = 3
    /\ walk_blocks[1][1] = "delta"
    /\ walk_blocks[2][1] = "abs"
    /\ walk_blocks[3][1] = "delta"
    /\ Len(walk_result.Points) = 3

\* ----------------------------------------------------------- claim C29
\* C29: every structure Step A hands to Step B holds a cell for each of the
\* route's hops, and no lookup of Step B by schedule position is out of
\* range.
C29_LookupInRange ==
    /\ StepADone =>
          \A k \in 1..Len(station_arrivals_departures) :
              Len(station_arrivals_departures[k]) = NumHops
    /\ pc # "panic"

\* ------------------------------------------- trip ids of the two outputs
\* fmt.Sprintf("%s_trip_%s_%d", route.Code, route.Schedules[schedule_idx].Code,
\* trip_idx), the route being the one of Stations, Schedules, Trips
TripId(schedule_code, trip_idx) == <<"trip", schedule_code, trip_idx>>

\* fmt.Sprintf("%02d:%02d:00", minutes / 60, minutes % 60)
TimeStr(minutes) ==
    <<PadDecimal(minutes \div 60, 2), PadDecimal(minutes % 60, 2), <<0, 0>>>>

\* a.Visits[0].ArrivalAndDepartMinutes, the key of the comparison
FirstMinutes(trip) == trip.Visits[1].ArrivalAndDepartMinutes

\* one insertion of the sort: trip goes behind every trip that does not
\* compare above it
InsertTrip(sorted, trip) ==
    LET before == Cardinality({i \in 1..Len(sorted) :
                     FirstMinutes(sorted[i]) - FirstMinutes(trip) <= 0})
    IN  SubSeq(sorted, 1, before) \o <<trip>>
            \o SubSeq(sorted, before + 1, Len(sorted))

\* sorted_trips after copy(sorted_trips, trips) and slices.SortFunc, which
\* sorts a slice of at most 12 elements by insertion
RECURSIVE SortedTrips(_)
SortedTrips(ts) ==
    IF ts = <<>> THEN <<>>
    ELSE InsertTrip(SortedTrips(SubSeq(ts, 1, Len(ts) - 1)), ts[Len(ts)])

\* route.Schedules[schedule_idx] of a non-empty trip list is past the
\* schedules of the route
SchedulePastEnd ==
    \E schedule_idx \in 0..(Len(Trips) - 1) :
        /\ Trips[schedule_idx + 1] # <<>>
        /\ schedule_idx >= Len(Schedules)

\* rows of trips.txt for one schedule: trip_idx is the index in route.Trips
TripRows(schedule_idx) ==
    [k \in 1..Len(Trips[schedule_idx + 1]) |->
        <<Schedules[schedule_idx + 1],
          TripId(Schedules[schedule_idx + 1], k - 1)>>]

\* rows of stop_times.txt for one trip under the number trip_idx
VisitRows(schedule_idx, trip_idx, trip) ==
    [i \in 1..Len(trip.Visits) |->
        <<TripId(Schedules[schedule_idx + 1], trip_idx),
          TimeStr(trip.Visits[i].ArrivalAndDepartMinutes),
          trip.Visits[i].Station,
          i - 1>>]

\* rows of stop_times.txt for one schedule: trip_idx is the index in
\* sorted_trips
StopTimeRows(schedule_idx) ==
    LET sorted_trips == SortedTrips(Trips[schedule_idx + 1])
    IN  Concat([k \in 1..Len(sorted_trips) |->
                   VisitRows(schedule_idx, k - 1, sorted_trips[k])])

GenerateTripsTXT ==
    /\ pc = "done"
    /\ "trips" \notin generated
    /\ IF SchedulePastEnd
       THEN /\ pc' = "gen_panic"
            /\ UNCHANGED <<trips_txt, generated>>
       ELSE /\ trips_txt' = Concat([s \in 1..Len(Trips) |-> TripRows(s - 1)])
            /\ generated' = generated \cup {"trips"}
            /\ pc' = pc
    /\ UNCHANGED <<routeVars, stepAVars, stepBVars, stop_times_txt,
                   nonTripIdsVars>>

GenerateStopTimesTXT ==
    /\ pc = "done"
    /\ "stop_times" \notin generated
    /\ IF SchedulePastEnd
       THEN /\ pc' = "gen_panic"
            /\ UNCHANGED <<stop_times_txt, generated>>
       ELSE /\ stop_times_txt' =
                  Concat([s \in 1..Len(Trips) |-> StopTimeRows(s - 1)])
            /\ generated' = generated \cup {"stop_times"}
            /\ pc' = pc
    /\ UNCHANGED <<routeVars, stepAVars, stepBVars, trips_txt,
                   nonTripIdsVars>>

\* one route loaded, then its two outputs generated in either order
TripIdsInit == Init

TripIdsNext ==
    \/ ChoosePath
    \/ BoundaryRead
    \/ FixedRead
    \/ BeginSchedule
    \/ FinishRoute
    \/ HopPanic
    \/ BeginHop
    \/ EndSchedule
    \/ FirstHopTrip
    \/ ExtendTrip
    \/ StartNewTrip
    \/ GenerateTripsTXT
    \/ GenerateStopTimesTXT

TripIdsSpec == TripIdsInit /\ [][TripIdsNext]_vars

\* the trip_ids of an output, in the order of their first rows
IdsOfTrips == {trips_txt[r][2] : r \in 1..Len(trips_txt)}
IdsOfStopTimes == {stop_times_txt[r][1] : r \in 1..Len(stop_times_txt)}

\* the rows of stop_times.txt written under one trip_id, in file order
RowsUnder(trip_id) ==
    SelectSeq(stop_times_txt, LAMBDA row : row[1] = trip_id)

\* C30: once both outputs of a route are generated they hold the same set
\* of trip_ids, and the trip a trip_id numbers in trips.txt (the trip at
\* that index of the schedule's trip list) is the trip whose visits
\* stop_times.txt lists under that trip_id.
C30_SameTripId ==
    generated = {"trips", "stop_times"} =>
        /\ IdsOfTrips = IdsOfStopTimes
        /\ \A s \in 1..Len(Trips) : \A k \in 1..Len(Trips[s]) :
              RowsUnder(TripId(Schedules[s], k - 1)) =
                  VisitRows(s - 1, k - 1, Trips[s][k])

====
